---- MODULE Spec2Model ----
(***************************************************************************)
(* A model of the docreader text-chunking engine and parser base class:    *)
(*   docreader/splitter/splitter.py      TextSplitter                      *)
(*   docreader/utils/sentence_split.py   sentence / paragraph utilities    *)
(*   docreader/parser/base_parser.py     BaseParser: OCR engine, images    *)
(*                                                                         *)
(* A text is a sequence of characters; a character is a one-element TLA+   *)
(* string, and a non-ASCII character is written by its code point          *)
(* ("U3002" is the ideographic full stop).  Offsets are 0-based, as in     *)
(* Python; Slice(s, a, b) is s[a:b].                                       *)
(***************************************************************************)
EXTENDS Integers, Sequences, FiniteSets, TLC

(***************************************************************************)
(* Bounds of the model.                                                    *)
(***************************************************************************)
\* longest legacy-mode input text, in characters
MaxLen == 5
\* largest chunk_size (and largest chunk_overlap requested minus one)
MaxChunk == 4

(***************************************************************************)
(* Characters.                                                             *)
(***************************************************************************)
NL == "\n"
CR == "\r"
TAB == "\t"
SP == " "
ZhStop == "U3002"
ZhExcl == "UFF01"
ZhQuest == "UFF1F"
ZhSemi == "UFF1B"
ZhComma == "UFF0C"
ZhColon == "UFF1A"

\* the characters str.strip() removes (those of the model's alphabets)
Whitespace == {SP, TAB, NL, CR}

Min(a, b) == IF a < b THEN a ELSE b
Max(a, b) == IF a > b THEN a ELSE b

\* s[a:b] of Python, for 0 <= a
Slice(s, a, b) == SubSeq(s, Min(a, Len(s)) + 1, Min(b, Len(s)))

\* s[a:] of Python; a negative a counts from the end
SliceFrom(s, a) ==
    IF a >= 0 THEN Slice(s, a, Len(s)) ELSE Slice(s, Max(Len(s) + a, 0), Len(s))

\* "".join(parts)
RECURSIVE Concat(_)
Concat(parts) == IF parts = <<>> THEN <<>> ELSE Head(parts) \o Concat(Tail(parts))

\* sub in s
IsSubstr(sub, s) ==
    \E k \in 0..(Len(s) - Len(sub)) : Slice(s, k, k + Len(sub)) = sub

\* s.find(sub, from): the least offset >= from at which sub occurs, or -1
Find(s, sub, from) ==
    LET hits == {k \in from..(Len(s) - Len(sub)) : Slice(s, k, k + Len(sub)) = sub}
    IN  IF hits = {} THEN -1 ELSE CHOOSE k \in hits : \A m \in hits : k <= m

\* s.strip()
RECURSIVE LStrip(_)
LStrip(s) == IF s # <<>> /\ Head(s) \in Whitespace THEN LStrip(Tail(s)) ELSE s
RECURSIVE RStrip(_)
RStrip(s) ==
    IF s # <<>> /\ s[Len(s)] \in Whitespace THEN RStrip(SubSeq(s, 1, Len(s) - 1)) ELSE s
Strip(s) == RStrip(LStrip(s))

\* all texts over an alphabet, of length 0..n
RECURSIVE TextsUpTo(_, _)
TextsUpTo(alphabet, n) ==
    IF n = 0 THEN {<<>>}
    ELSE LET shorter == TextsUpTo(alphabet, n - 1)
         IN  shorter \cup {Append(t, c) : t \in {u \in shorter : Len(u) = n - 1}, c \in alphabet}

(***************************************************************************)
(* Configuration of a TextSplitter (splitter.py, TextSplitter.__init__).   *)
(***************************************************************************)
\* separators = ["\n", "。", " "], in priority order
separators == <<NL, ZhStop, SP>>

\* sentence_end_punctuation = ["。", "！", "？", "；", ".", "!", "?", ";"]
sentence_end_punctuation == {ZhStop, ZhExcl, ZhQuest, ZhSemi, ".", "!", "?", ";"}

(***************************************************************************)
(* docreader/utils/split.py is not among the source files: split_by_sep    *)
(* and split_by_char follow the specification's section 4.2 (separators    *)
(* are retained in the output, the last resort is character level).        *)
(***************************************************************************)
\* a new piece starts at every occurrence of sep, which stays with it
RECURSIVE split_by_sep(_, _)
split_by_sep(sep, text) ==
    IF text = <<>> THEN <<>>
    ELSE LET before == split_by_sep(sep, SubSeq(text, 1, Len(text) - 1))
             c == text[Len(text)]
         IN  IF before = <<>> \/ c = sep
             THEN Append(before, <<c>>)
             ELSE [before EXCEPT ![Len(before)] = Append(@, c)]

\* list(text)
split_by_char(text) == [k \in 1..Len(text) |-> <<text[k]>>]

(***************************************************************************)
(* TextSplitter._split: the recursive unit splitter.                       *)
(***************************************************************************)
\* the result of the first split function that yields more than one piece
\* (the loop leaves the last function's result when none does)
RECURSIVE FirstSplit(_, _)
FirstSplit(text, k) ==
    IF k > Len(separators) THEN split_by_char(text)
    ELSE LET splits == split_by_sep(separators[k], text)
         IN  IF Len(splits) > 1 THEN splits ELSE FirstSplit(text, k + 1)

\* a unit splitter that stops after the first chunk_size characters
split_first_piece(text, chunk_size) ==
    IF Len(text) <= chunk_size THEN <<text>> ELSE <<SubSeq(text, 1, chunk_size)>>

RECURSIVE split(_, _)
split(text, chunk_size) ==
    IF Len(text) <= chunk_size THEN <<text>>
    ELSE LET splits == FirstSplit(text, 1)
         IN  Concat([k \in 1..Len(splits) |->
                        IF Len(splits[k]) <= chunk_size
                        THEN <<splits[k]>>
                        ELSE split(splits[k], chunk_size)])

(***************************************************************************)
(* The protected patterns.  Of the default protected_regex list the model  *)
(* carries the math block (two dollar signs, lazily anything, two dollar   *)
(* signs) and the table body (one or more cells, each a bar followed by    *)
(* characters other than bar and newline, then a closing bar, then one or  *)
(* more of CR and NL).                                                     *)
(* A match is <<start, end>>; finditer scans from the left and resumes at  *)
(* the end of each match.                                                  *)
(***************************************************************************)
\* the end of the math-block match starting at s, or -1
MathMatchEnd(text, s) ==
    IF Slice(text, s, s + 2) # <<"$", "$">> THEN -1
    ELSE LET close == Find(text, <<"$", "$">>, s + 2)
         IN  IF close = -1 THEN -1 ELSE close + 2

\* the offset just past the run of \r and \n starting at e
RECURSIVE SkipNewlines(_, _)
SkipNewlines(text, e) ==
    IF e < Len(text) /\ text[e + 1] \in {NL, CR} THEN SkipNewlines(text, e + 1) ELSE e

\* the end of the table-body match starting at s, or -1: the row runs from a
\* "|" to the "|" that closes its line, the line's \n is the first after s
\* (a \r is an ordinary cell character to [^|\n]), and the match takes every
\* \r and \n that follows the closing "|"
TableMatchEnd(text, s) ==
    IF s >= Len(text) \/ text[s + 1] # "|" THEN -1
    ELSE LET closers == {e \in (s + 1)..(Len(text) - 2) :
                            /\ text[e + 1] = "|"
                            /\ text[e + 2] \in {NL, CR}
                            /\ \A m \in s..e : text[m + 1] # NL}
         IN  IF closers = {} THEN -1
             ELSE SkipNewlines(text, (CHOOSE e \in closers : \A m \in closers : m <= e) + 1)

\* the offset just past the run of white space starting at q
RECURSIVE SkipWhitespace(_, _)
SkipWhitespace(text, q) ==
    IF q < Len(text) /\ text[q + 1] \in Whitespace THEN SkipWhitespace(text, q + 1) ELSE q

\* the offset just past the run of "-" starting at q
RECURSIVE SkipDashes(_, _)
SkipDashes(text, q) ==
    IF q < Len(text) /\ text[q + 1] = "-" THEN SkipDashes(text, q + 1) ELSE q

\* the end of one cell of a separator line starting at q, or -1: a "|",
\* white space, an optional ":", three or more "-", an optional ":", white
\* space
SeparatorCellEnd(text, q) ==
    IF q >= Len(text) \/ text[q + 1] # "|" THEN -1
    ELSE LET a == SkipWhitespace(text, q + 1)
             b == IF a < Len(text) /\ text[a + 1] = ":" THEN a + 1 ELSE a
             c == SkipDashes(text, b)
             d == IF c < Len(text) /\ text[c + 1] = ":" THEN c + 1 ELSE c
         IN  IF c - b < 3 THEN -1 ELSE SkipWhitespace(text, d)

\* the end of the separator line whose first cell starts at q, or -1: as
\* many cells as can be followed by the closing "|" and a line ending, and
\* every \r and \n that follows
RECURSIVE SeparatorEnd(_, _)
SeparatorEnd(text, q) ==
    LET g == SeparatorCellEnd(text, q)
    IN  IF g = -1 THEN -1
        ELSE LET more == SeparatorEnd(text, g)
             IN  IF more # -1 THEN more
                 ELSE IF g + 1 < Len(text) /\ text[g + 1] = "|" /\ text[g + 2] \in {NL, CR}
                      THEN SkipNewlines(text, g + 1)
                      ELSE -1

\* the end of the table-header match starting at s, or -1: a row as in the
\* table body, white space, and a separator line; of the "|" that can close
\* the row the last one that a separator line follows is taken
TableHeaderMatchEnd(text, s) ==
    IF s >= Len(text) \/ text[s + 1] # "|" THEN -1
    ELSE LET closers == {e \in (s + 1)..(Len(text) - 2) :
                            /\ text[e + 1] = "|"
                            /\ text[e + 2] \in {NL, CR}
                            /\ \A m \in s..e : text[m + 1] # NL
                            /\ SeparatorEnd(text, SkipWhitespace(text, e + 1)) # -1}
         IN  IF closers = {} THEN -1
             ELSE SeparatorEnd(text, SkipWhitespace(text,
                      (CHOOSE e \in closers : \A m \in closers : m <= e) + 1))

MatchEnd(pattern, text, s) ==
    IF pattern = "math" THEN MathMatchEnd(text, s)
    ELSE IF pattern = "table_header" THEN TableHeaderMatchEnd(text, s)
    ELSE TableMatchEnd(text, s)

\* pattern.finditer(text), from offset s on
RECURSIVE FindIter(_, _, _)
FindIter(pattern, text, s) ==
    IF s >= Len(text) THEN <<>>
    ELSE LET e == MatchEnd(pattern, text, s)
         IN  IF e = -1 THEN FindIter(pattern, text, s + 1)
             ELSE <<(<<s, e>>)>> \o FindIter(pattern, text, e)

\* protected_regex, in the order of the default list
protected_regex == <<"math", "table_header", "table_body">>

\* the sort order, were the shortest of the matches with one start first
SortsBefore_shortest_first(a, b) == a[1] < b[1] \/ (a[1] = b[1] /\ a[2] < b[2])

\* matches.sort(key=lambda x: (x[0], -x[1])): a stable insertion sort
SortsBefore(a, b) == a[1] < b[1] \/ (a[1] = b[1] /\ a[2] > b[2])
RECURSIVE InsertMatch(_, _)
InsertMatch(sorted, m) ==
    IF sorted = <<>> THEN <<m>>
    ELSE IF SortsBefore(m, Head(sorted)) THEN <<m>> \o sorted
    ELSE <<Head(sorted)>> \o InsertMatch(Tail(sorted), m)
RECURSIVE SortMatches(_)
SortMatches(ms) ==
    IF ms = <<>> THEN <<>>
    ELSE InsertMatch(SortMatches(SubSeq(ms, 1, Len(ms) - 1)), ms[Len(ms)])

\* the accumulate pass: a match is kept when it starts at or after the
\* furthest end seen so far and is shorter than chunk_size
RECURSIVE fold(_, _, _, _)
fold(initial, matches, text, chunk_size) ==
    IF matches = <<>> THEN <<>>
    ELSE LET current == Head(matches)
             kept == IF current[1] >= initial /\ current[2] - current[1] < chunk_size
                     THEN <<(<<current[1], Slice(text, current[1], current[2])>>)>>
                     ELSE <<>>
         IN  kept \o fold(Max(initial, current[2]), Tail(matches), text, chunk_size)

\* TextSplitter._split_protected: the list of (start, protected text)
split_protected(text, chunk_size) ==
    LET matches == Concat([p \in 1..Len(protected_regex) |->
                              FindIter(protected_regex[p], text, 0)])
    IN  fold(-1, SortMatches(matches), text, chunk_size)

(***************************************************************************)
(* TextSplitter._join.  The loop state is [j, point, start, res]; j counts *)
(* the protected spans consumed (0-based, as in the code).                 *)
(***************************************************************************)
\* what is left of the current split once a protected span that reaches to
\* p_end is skipped (570-573)
AfterProtected_keep(cur, point, p_end) == cur
AfterProtected(cur, point, p_end) == SliceFrom(cur, p_end - point)

\* the while loop over the protected spans that reach into the current split
RECURSIVE JoinWhile(_, _, _)
JoinWhile(st, end, protect) ==
    IF st.j >= Len(protect) THEN st
    ELSE LET p_start == protect[st.j + 1][1]
             p_content == protect[st.j + 1][2]
             p_end == p_start + Len(p_content)
         IN  IF end <= p_start THEN st
             ELSE LET before == st.point < p_start
                      local_end == p_start - st.point
                      res1 == IF before THEN Append(st.res, Slice(st.cur, 0, local_end))
                              ELSE st.res
                      cur1 == IF before THEN SliceFrom(st.cur, local_end) ELSE st.cur
                      point1 == IF before THEN p_start ELSE st.point
                      res2 == Append(res1, p_content)
                      skip == point1 < p_end
                      cur2 == IF skip THEN AfterProtected(cur1, point1, p_end) ELSE cur1
                      point2 == IF skip THEN p_end ELSE point1
                      st2 == [st EXCEPT !.j = st.j + 1, !.point = point2,
                                        !.cur = cur2, !.res = res2]
                  IN  IF cur2 = <<>> THEN st2 ELSE JoinWhile(st2, end, protect)

\* one iteration of the for loop over splits
JoinSplit(st, split_, protect) ==
    LET end == st.start + Len(split_)
        entered == [st EXCEPT !.cur = SliceFrom(split_, st.point - st.start)]
        after == JoinWhile(entered, end, protect)
    IN  IF after.cur # <<>>
        THEN [after EXCEPT !.res = Append(after.res, after.cur), !.point = end,
                           !.start = end]
        ELSE [after EXCEPT !.start = end]

RECURSIVE JoinFor(_, _, _)
JoinFor(st, splits, protect) ==
    IF splits = <<>> THEN st
    ELSE JoinFor(JoinSplit(st, Head(splits), protect), Tail(splits), protect)

\* _join leaving the unit stream as _split made it
join_passthrough(units, protect_) == units
join(units, protect_) ==
    JoinFor([j |-> 0, point |-> 0, start |-> 0, cur |-> <<>>, res |-> <<>>],
            units, protect_).res

(***************************************************************************)
(* docreader/splitter/header_hook.py is not among the source files.  The   *)
(* tracker follows the specification's section 6: update feeds a fragment  *)
(* and changes the heading state on seeing a Markdown heading marker,      *)
(* get_headers returns the current heading.  Its state is the heading: the *)
(* text from the latest marker to the end of its line.                     *)
(***************************************************************************)
HeadingMarker == "#"

HeaderTracker_update(heading, fragment) ==
    LET at == Find(fragment, <<HeadingMarker>>, 0)
        eol == Find(fragment, <<NL>>, Max(at, 0))
    IN  IF at = -1 THEN heading
        ELSE Slice(fragment, at, IF eol = -1 THEN Len(fragment) ELSE eol)

HeaderTracker_get_headers(heading) == heading

(***************************************************************************)
(* The state of one TextSplitter and of the split_text calls made on it.   *)
(***************************************************************************)
VARIABLES
    chunk_size,       \* constructor argument, then the splitter's field
    chunk_overlap,    \* constructor argument, then the splitter's field
    paragraph_aware,  \* constructor argument, then the splitter's field
    language,         \* constructor argument, then the splitter's field
    header_hook,      \* the state of the splitter's HeaderTracker
    text,             \* the text given to split_text
    pc,               \* "start", "new", "ready", "merge", "paragraphs", "raised";
                      \* "call" and "returned" for a function called alone
    err,              \* the exception raised, or "none"
    results,          \* the chunk lists returned so far, one per call
    splits,           \* _merge: the joined unit stream
    protect,          \* the protected spans of the current call
    idx,              \* _merge: 1-based index of the next split
    cur_chunk,        \* _merge: list of <<start, end, text>>
    cur_len,          \* _merge
    cur_start,        \* _merge
    chunks,           \* the chunks emitted so far in the current call
    cur_units,        \* history: for each element of cur_chunk the index of its
                      \* unit in splits, 0 for a prepended heading
    chunk_units,      \* history: cur_units of each emitted chunk
    paragraphs,       \* paragraph-aware mode: the triples of split_paragraphs
    para_idx,         \* paragraph-aware mode: 1-based index of the next paragraph
    chunk_sents,      \* history: for each emitted chunk of paragraph-aware mode
                      \* its paragraph, its constituent sentences, and whether
                      \* it is the last chunk of its paragraph
    sent_max_len,     \* the max_len argument of a sentence splitter called alone
    ret,              \* the value returned by a function called alone
    ocr_engine,       \* BaseParser._ocr_engine: for each class its own attribute,
                      \* "unset" where the class has none and inherits it
    ocr_engine_failed,  \* BaseParser._ocr_engine_failed, likewise
    ocr_calls,        \* history: the calls of get_ocr_engine made so far
    max_concurrent_tasks,  \* the parser's field
    images_data,      \* the list given to process_multiple_images, as urls
    semaphore,        \* the value of the asyncio.Semaphore
    tasks,            \* the process_with_limit coroutines, one record per image
    ocr_threads       \* for each image the state of the executor thread that
                      \* runs perform_ocr: "none", "running", "returned", "raised"

cfg_vars == <<chunk_size, chunk_overlap, paragraph_aware, language>>
merge_vars == <<splits, protect, idx, cur_chunk, cur_len, cur_start, cur_units>>
para_vars == <<paragraphs, para_idx, chunk_sents>>
fn_vars == <<sent_max_len, ret>>
parser_vars == <<ocr_engine, ocr_engine_failed, ocr_calls, max_concurrent_tasks, images_data,
                 semaphore, tasks, ocr_threads>>
vars == <<cfg_vars, header_hook, text, pc, err, results, merge_vars, chunks, chunk_units,
          para_vars, fn_vars, parser_vars>>

\* the classes get_ocr_engine is called on: BaseParser and a class derived
\* from it
OcrClasses == {"BaseParser", "Subclass"}

\* the class attributes as the class body sets them (30-31)
OcrIdle ==
    /\ ocr_engine = [c \in OcrClasses |-> IF c = "BaseParser" THEN "None" ELSE "unset"]
    /\ ocr_engine_failed = [c \in OcrClasses |-> IF c = "BaseParser" THEN "False" ELSE "unset"]
    /\ ocr_calls = <<>>

\* no call of process_multiple_images under way
NoImageTasks ==
    /\ semaphore = 0
    /\ tasks = <<>>
    /\ ocr_threads = <<>>

\* the parser state before any parser method runs, with the default
\* max_concurrent_tasks (71)
ParserIdle ==
    /\ OcrIdle
    /\ max_concurrent_tasks = 5
    /\ images_data = <<>>
    /\ NoImageTasks

\* the alphabet of the legacy-mode texts: the first separator, the table bar
\* (an ordinary character wherever it closes no table row) and the heading
\* marker
LegacyAlphabet == {NL, "|", HeadingMarker}

\* split_text calls made on one splitter
MaxCalls == 2

InitLegacy ==
    /\ chunk_size \in 1..MaxChunk
    /\ chunk_overlap \in 0..(MaxChunk + 1)
    /\ paragraph_aware = FALSE
    /\ language = "zh"
    /\ header_hook = <<>>
    /\ text \in TextsUpTo(LegacyAlphabet, MaxLen)
    /\ pc = "new"
    /\ err = "none"
    /\ results = <<>>
    /\ splits = <<>> /\ protect = <<>> /\ idx = 1
    /\ cur_chunk = <<>> /\ cur_len = 0 /\ cur_start = 0
    /\ chunks = <<>>
    /\ cur_units = <<>> /\ chunk_units = <<>>
    /\ paragraphs = <<>> /\ para_idx = 1 /\ chunk_sents = <<>>
    /\ sent_max_len = 0 /\ ret = <<>>
    /\ ParserIdle

(***************************************************************************)
(* TextSplitter.__init__ (splitter.py 126-148).                            *)
(***************************************************************************)
ConstructorRejects_ge(size, overlap) == overlap >= size
ConstructorRejects(size, overlap) == overlap > size

Construct ==
    /\ pc = "new"
    /\ IF ConstructorRejects(chunk_size, chunk_overlap)
       THEN pc' = "raised" /\ err' = "ValueError"
       ELSE pc' = "ready" /\ err' = err
    /\ UNCHANGED parser_vars
    /\ UNCHANGED <<cfg_vars, fn_vars, header_hook, text, results, merge_vars, chunks, chunk_units,
                   para_vars>>

(***************************************************************************)
(* TextSplitter.split_text (splitter.py 150-179), legacy branch.           *)
(***************************************************************************)
\* the empty-text early return (159-160)
IsNoOpInput(t) == t = <<>>

\* steps 1-3 (166-172)
JoinedSplits(t, size) == join(split(t, size), split_protected(t, size))

split_text_legacy ==
    /\ pc = "ready"
    /\ Len(results) < MaxCalls
    /\ ~paragraph_aware
    /\ chunks' = <<>>
    /\ chunk_units' = <<>>
    /\ IF IsNoOpInput(text)
       THEN /\ results' = Append(results, <<>>)
            /\ UNCHANGED <<pc, err, merge_vars>>
       ELSE LET joined == JoinedSplits(text, chunk_size)
            IN  /\ splits' = joined
                /\ protect' = split_protected(text, chunk_size)
                /\ idx' = 1
                /\ cur_chunk' = <<>> /\ cur_len' = 0 /\ cur_start' = 0
                /\ cur_units' = <<>>
                /\ results' = results
                \* assert "".join(splits) == text (175)
                /\ IF Concat(joined) = text
                   THEN pc' = "merge" /\ err' = err
                   ELSE pc' = "raised" /\ err' = "AssertionError"
    /\ UNCHANGED parser_vars
    /\ UNCHANGED <<cfg_vars, fn_vars, header_hook, text, para_vars>>

(***************************************************************************)
(* TextSplitter._merge (splitter.py 367-476): one loop iteration, and the  *)
(* flush of the last chunk.                                                *)
(***************************************************************************)
\* the emitted chunk with the end offset of its first element
ChunkOf_first_end(buffer) ==
    <<buffer[1][1], buffer[1][2],
      Concat([k \in 1..Len(buffer) |-> buffer[k][3]])>>

\* the chunk a buffer is emitted as (425-431, 468-474)
ChunkOf(buffer) ==
    <<buffer[1][1], buffer[Len(buffer)][2],
      Concat([k \in 1..Len(buffer) |-> buffer[k][3]])>>

\* whether the buffer is closed before the split is added (422)
MustClose(len, split_len, headers_len, size) == len + split_len + headers_len > size

\* the pop loop without its "total length fits" condition
RECURSIVE PopOverlap_overlap_only(_, _, _, _, _)
PopOverlap_overlap_only(st, split_len, headers_len, size, overlap) ==
    IF st.chunk # <<>> /\ st.len > overlap
    THEN PopOverlap_overlap_only([chunk |-> Tail(st.chunk),
                                  len |-> st.len - Len(Head(st.chunk)[3]),
                                  units |-> Tail(st.units)],
                                 split_len, headers_len, size, overlap)
    ELSE st

\* the pop loop without its "length above chunk_overlap" condition
RECURSIVE PopOverlap_fit_only(_, _, _, _, _)
PopOverlap_fit_only(st, split_len, headers_len, size, overlap) ==
    IF st.chunk # <<>> /\ st.len + split_len + headers_len > size
    THEN PopOverlap_fit_only([chunk |-> Tail(st.chunk),
                              len |-> st.len - Len(Head(st.chunk)[3]),
                              units |-> Tail(st.units)],
                             split_len, headers_len, size, overlap)
    ELSE st

\* the pop loop (437-443), on the buffer st = [chunk, len, units]
RECURSIVE PopOverlap(_, _, _, _, _)
PopOverlap(st, split_len, headers_len, size, overlap) ==
    IF st.chunk # <<>> /\ (\/ st.len > overlap
                          \/ st.len + split_len + headers_len > size)
    THEN PopOverlap([chunk |-> Tail(st.chunk),
                     len |-> st.len - Len(Head(st.chunk)[3]),
                     units |-> Tail(st.units)],
                    split_len, headers_len, size, overlap)
    ELSE st

\* the prepend test, were it to look at the heading's size only
PrependsHeaders_fit_only(headers, split_, size) ==
    /\ headers # <<>>
    /\ Len(split_) + Len(headers) < size

\* whether the heading is prepended to the new chunk (449-453)
PrependsHeaders(headers, split_, size) ==
    /\ headers # <<>>
    /\ Len(split_) + Len(headers) < size
    /\ ~IsSubstr(headers, split_)

\* the start offset given to a prepended heading (454-455)
HeaderStart(next_start, headers_len) == Max(0, next_start - headers_len)

merge_split ==
    /\ pc = "merge"
    /\ idx <= Len(splits)
    /\ LET split_ == splits[idx]
           cur_end == cur_start + Len(split_)
           split_len == Len(split_)
           tracked == HeaderTracker_update(header_hook, split_)
           got == HeaderTracker_get_headers(tracked)
           cur_headers == IF Len(got) > chunk_size THEN <<>> ELSE got
           cur_headers_len == Len(cur_headers)
           close == MustClose(cur_len, split_len, cur_headers_len, chunk_size)
           kept == PopOverlap([chunk |-> cur_chunk, len |-> cur_len, units |-> cur_units],
                              split_len, cur_headers_len, chunk_size, chunk_overlap)
           prepend == close /\ PrependsHeaders(cur_headers, split_, chunk_size)
           next_start == IF kept.chunk # <<>> THEN kept.chunk[1][1] ELSE cur_start
           header == <<HeaderStart(next_start, cur_headers_len), cur_end, cur_headers>>
           buffer == IF ~close THEN cur_chunk
                     ELSE IF prepend THEN <<header>> \o kept.chunk ELSE kept.chunk
           buffer_units == IF ~close THEN cur_units
                           ELSE IF prepend THEN <<0>> \o kept.units ELSE kept.units
           buffer_len == IF ~close THEN cur_len
                         ELSE IF prepend THEN kept.len + cur_headers_len ELSE kept.len
       IN  /\ header_hook' = tracked
           /\ chunks' = IF close /\ cur_chunk # <<>>
                        THEN Append(chunks, ChunkOf(cur_chunk)) ELSE chunks
           /\ chunk_units' = IF close /\ cur_chunk # <<>>
                             THEN Append(chunk_units, cur_units) ELSE chunk_units
           /\ cur_chunk' = Append(buffer, <<cur_start, cur_end, split_>>)
           /\ cur_units' = Append(buffer_units, idx)
           /\ cur_len' = buffer_len + split_len
           /\ cur_start' = cur_end
           /\ idx' = idx + 1
    /\ UNCHANGED parser_vars
    /\ UNCHANGED <<cfg_vars, fn_vars, text, pc, err, results, splits, protect, para_vars>>

\* a return that leaves the last buffer out of the chunk list
merge_flush_without_last ==
    /\ pc = "merge"
    /\ idx > Len(splits)
    /\ results' = Append(results, chunks)
    /\ pc' = "ready"
    /\ UNCHANGED parser_vars
    /\ UNCHANGED <<cfg_vars, fn_vars, header_hook, text, err, merge_vars, chunks, chunk_units,
                   para_vars>>

\* the last chunk (466-476) and split_text's return (178-179)
merge_flush ==
    /\ pc = "merge"
    /\ idx > Len(splits)
    /\ IF cur_chunk # <<>>
       THEN /\ chunks' = Append(chunks, ChunkOf(cur_chunk))
            /\ chunk_units' = Append(chunk_units, cur_units)
            /\ results' = Append(results, chunks')
            /\ pc' = "ready" /\ err' = err
       ELSE /\ pc' = "raised" /\ err' = "AssertionError"
            /\ UNCHANGED <<chunks, chunk_units, results>>
    /\ UNCHANGED parser_vars
    /\ UNCHANGED <<cfg_vars, fn_vars, header_hook, text, merge_vars, para_vars>>

NextLegacy == Construct \/ split_text_legacy \/ merge_split \/ merge_flush

SpecLegacy == InitLegacy /\ [][NextLegacy]_vars

(***************************************************************************)
(* Properties of legacy mode (SpecLegacy).                                 *)
(***************************************************************************)
\* the offset in the text at which unit k of the joined stream starts
UnitStart(k) == Len(Concat(SubSeq(splits, 1, k - 1)))

\* the chunks emitted so far by the current call and by the finished ones
EmittedChunks ==
    {chunks[k] : k \in 1..Len(chunks)}
        \cup UNION {{results[r][k] : k \in 1..Len(results[r])} : r \in 1..Len(results)}

\* C1: in legacy mode the unit stream produced by _split followed by _join
\* concatenates to exactly the input text, for every text, chunk_size and
\* protected spans, so the reconstruction assertion of split_text never fails.
C1_Reconstruction ==
    /\ err # "AssertionError"
    /\ (pc \in {"ready", "merge"} /\ ~paragraph_aware) =>
           Concat(JoinedSplits(text, chunk_size)) = text

\* C1 witness: _join redrew the unit stream around a protected span and the
\* assertion passed
C1_Witness ==
    /\ pc = "merge"
    /\ protect # <<>>
    /\ splits # split(text, chunk_size)
    /\ Concat(splits) = text

\* C2: in legacy mode every emitted chunk's content is no longer than
\* chunk_size, also when it begins with a prepended heading and retained
\* overlap units.
C2_SizeBound == \A c \in EmittedChunks : Len(c[3]) <= chunk_size

\* C2 witness: an emitted chunk made of a prepended heading, a unit retained
\* from the chunk before it, and a new unit
C2_Witness ==
    \E k \in 2..Len(chunk_units) :
        /\ Len(chunk_units[k]) >= 3
        /\ chunk_units[k][1] = 0
        /\ \E m \in 1..Len(chunk_units[k - 1]) : chunk_units[k - 1][m] = chunk_units[k][2]

\* a protected span <<start, text>> is exactly one unit of the joined stream
IsOneUnit(p) ==
    Cardinality({k \in 1..Len(splits) : UnitStart(k) = p[1] /\ splits[k] = p[2]}) = 1

\* offset x lies strictly inside the protected span p
StrictlyInside(x, p) == p[1] < x /\ x < p[1] + Len(p[2])

\* C4 as claimed: every protected span is exactly one unit of the joined
\* stream and no emitted chunk starts or ends strictly inside a span.
C4_NoBoundaryInside ==
    pc \in {"merge", "ready"} =>
        \A j \in 1..Len(protect) :
            /\ IsOneUnit(protect[j])
            /\ \A k \in 1..Len(chunks) :
                   /\ ~StrictlyInside(chunks[k][1], protect[j])
                   /\ ~StrictlyInside(chunks[k][2], protect[j])

\* C4 amended: every protected span is exactly one unit of the joined stream;
\* no emitted chunk ends strictly inside a span, no chunk without a prepended
\* heading starts strictly inside one, and every chunk's content is the
\* optional heading followed by whole consecutive units.
C4_NoBoundaryInsideUnits ==
    pc \in {"merge", "ready"} =>
        /\ \A j \in 1..Len(protect) :
               /\ IsOneUnit(protect[j])
               /\ \A k \in 1..Len(chunks) :
                      /\ ~StrictlyInside(chunks[k][2], protect[j])
                      /\ chunk_units[k][1] # 0 => ~StrictlyInside(chunks[k][1], protect[j])
        /\ \A k \in 1..Len(chunks) :
               LET us == chunk_units[k]
                   body == IF us[1] = 0 THEN Tail(us) ELSE us
               IN  /\ \A m \in 1..Len(body) : body[m] = body[1] + m - 1
                   /\ \E heading \in {SubSeq(chunks[k][3], 1, n) :
                                         n \in IF us[1] = 0 THEN 1..Len(chunks[k][3]) ELSE {0}} :
                          chunks[k][3] = heading \o Concat([m \in 1..Len(body) |-> splits[body[m]]])

\* C4 witness: a protected span that _split had cut, emitted inside a chunk
\* while another chunk has been emitted as well
C4_Witness ==
    /\ pc = "ready"
    /\ Len(chunks) >= 2
    /\ \E j \in 1..Len(protect) :
           /\ \A k \in 1..Len(split(text, chunk_size)) :
                  split(text, chunk_size)[k] # protect[j][2]
           /\ \E k \in 1..Len(chunks) : IsSubstr(protect[j][2], chunks[k][3])

\* C7: two split_text calls with the same text on the same splitter return
\* the same chunk sequence.
C7_Idempotent == Len(results) >= 2 => results[2] = results[1]

\* C8: the constructor raises ValueError exactly when chunk_overlap exceeds
\* chunk_size, and then no splitter exists to be called; chunk_overlap equal
\* to chunk_size is accepted; split_text never raises it.
C8_ConfigurationError ==
    /\ err = "ValueError" => (pc = "raised" /\ chunk_overlap > chunk_size /\ results = <<>>)
    /\ (pc # "new" /\ chunk_overlap > chunk_size) => err = "ValueError"
    /\ (pc # "new" /\ chunk_overlap <= chunk_size) => err # "ValueError"

\* C8 witness: a construction rejected for an overlap just above the size
C8_Witness == err = "ValueError" /\ chunk_overlap = chunk_size + 1

\* C9: split_text returns the empty chunk sequence, without raising, for the
\* empty text and for every whitespace-only text.
C9_NoOpInput ==
    Strip(text) = <<>> =>
        /\ err \in {"none", "ValueError"}
        /\ \A r \in 1..Len(results) : results[r] = <<>>

(***************************************************************************)
(* docreader/utils/sentence_split.py.                                      *)
(***************************************************************************)
\* the letters A-Z
UpperCase ==
    {"A", "B", "C", "D", "E", "F", "G", "H", "I", "J", "K", "L", "M",
     "N", "O", "P", "Q", "R", "S", "T", "U", "V", "W", "X", "Y", "Z"}

\* the marks the English pattern is built from (109)
EnglishMarks == {".", "!", "?", ";"}

\* the characters split_at_nearest_space cuts at (200, 206)
SpaceChars == {SP, TAB, NL}

\* [m.strip() for m in pieces if m.strip()]
RECURSIVE StripNonBlank(_)
StripNonBlank(pieces) ==
    IF pieces = <<>> THEN <<>>
    ELSE IF Strip(Head(pieces)) = <<>> THEN StripNonBlank(Tail(pieces))
    ELSE <<Strip(Head(pieces))>> \o StripNonBlank(Tail(pieces))

\* the commas of both languages
Commas == {ZhComma, ","}

\* the sentence pattern, were a comma a sentence-end mark as well
RECURSIVE FindSentences_commas(_, _, _)
FindSentences_commas(t, marks, acc) ==
    IF t = <<>> THEN (IF acc = <<>> THEN <<>> ELSE <<acc>>)
    ELSE IF Head(t) \in marks \cup Commas
         THEN (IF acc = <<>> THEN <<>> ELSE <<Append(acc, Head(t))>>)
                  \o FindSentences_commas(Tail(t), marks, <<>>)
         ELSE FindSentences_commas(Tail(t), marks, Append(acc, Head(t)))

\* re.findall of "a run of non-marks, then at most one mark" (41-43); acc is
\* the run read so far
\* the sentence pattern, were a sentence cut in front of its mark
RECURSIVE FindSentences_before(_, _, _)
FindSentences_before(t, marks, acc) ==
    IF t = <<>> THEN (IF acc = <<>> THEN <<>> ELSE <<acc>>)
    ELSE IF Head(t) \in marks
         THEN (IF acc = <<>> THEN <<>> ELSE <<acc>>)
                  \o FindSentences_before(Tail(t), marks, <<Head(t)>>)
         ELSE FindSentences_before(Tail(t), marks, Append(acc, Head(t)))

RECURSIVE FindSentences(_, _, _)
FindSentences(t, marks, acc) ==
    IF t = <<>> THEN (IF acc = <<>> THEN <<>> ELSE <<acc>>)
    ELSE IF Head(t) \in marks
         THEN (IF acc = <<>> THEN <<>> ELSE <<Append(acc, Head(t))>>)
                  \o FindSentences(Tail(t), marks, <<>>)
         ELSE FindSentences(Tail(t), marks, Append(acc, Head(t)))

\* re.split on a delimiter group followed by the pairwise merge (54-58,
\* 65-68): the pieces of t, each delimiter at the end of the piece before it
RECURSIVE SplitAfter(_, _, _)
SplitAfter(t, delims, acc) ==
    IF t = <<>> THEN <<acc>>
    ELSE IF Head(t) \in delims
         THEN <<Append(acc, Head(t))>> \o SplitAfter(Tail(t), delims, <<>>)
         ELSE SplitAfter(Tail(t), delims, Append(acc, Head(t)))

\* the fallback of split_chinese_sentences for one sentence (49-74)
ChineseFallback(sent, max_len) ==
    IF Len(sent) <= max_len THEN <<sent>>
    ELSE IF \E k \in 1..Len(sent) : sent[k] = ZhSemi
         THEN StripNonBlank(SplitAfter(sent, {ZhSemi}, <<>>))
         ELSE IF \E k \in 1..Len(sent) : sent[k] \in {ZhColon, ":"}
              THEN StripNonBlank(SplitAfter(sent, {ZhColon, ":"}, <<>>))
              ELSE <<sent>>

\* the result list of split_chinese_sentences (47-74)
RECURSIVE ChineseResult(_, _)
ChineseResult(sentences, max_len) ==
    IF sentences = <<>> THEN <<>>
    ELSE ChineseFallback(Head(sentences), max_len) \o ChineseResult(Tail(sentences), max_len)

split_chinese_sentences(t, sentence_end_marks, max_len) ==
    IF Strip(t) = <<>> THEN <<>>
    ELSE ChineseResult(StripNonBlank(FindSentences(t, sentence_end_marks, <<>>)), max_len)

\* the first position >= i (1-based) of t that holds no whitespace
RECURSIVE SkipSpace(_, _)
SkipSpace(t, i) ==
    IF i <= Len(t) /\ t[i] \in Whitespace THEN SkipSpace(t, i + 1) ELSE i

\* the English cut, were it made at every whitespace run before an upper-case
\* letter, whatever precedes the run
RECURSIVE EnglishCut_any_space(_, _, _)
EnglishCut_any_space(t, i, acc) ==
    IF i > Len(t) THEN <<acc>>
    ELSE LET j == SkipSpace(t, i)
         IN  IF i > 1 /\ j > i /\ j <= Len(t) /\ t[j] \in UpperCase
             THEN <<acc>> \o EnglishCut_any_space(t, j, <<>>)
             ELSE EnglishCut_any_space(t, i + 1, Append(acc, t[i]))

\* re.split at each whitespace run that follows a mark and precedes an
\* upper-case letter (109-111); i is the 1-based position read, acc the piece
\* read so far
\* the English cut, were it made at every whitespace run behind a mark,
\* whatever follows the run
RECURSIVE EnglishCut_any_letter(_, _, _)
EnglishCut_any_letter(t, i, acc) ==
    IF i > Len(t) THEN <<acc>>
    ELSE LET j == SkipSpace(t, i)
         IN  IF /\ i > 1 /\ t[i - 1] \in EnglishMarks
                /\ j > i /\ j <= Len(t)
             THEN <<acc>> \o EnglishCut_any_letter(t, j, <<>>)
             ELSE EnglishCut_any_letter(t, i + 1, Append(acc, t[i]))

RECURSIVE EnglishCut(_, _, _)
EnglishCut(t, i, acc) ==
    IF i > Len(t) THEN <<acc>>
    ELSE LET j == SkipSpace(t, i)
         IN  IF /\ i > 1 /\ t[i - 1] \in EnglishMarks
                /\ j > i /\ j <= Len(t) /\ t[j] \in UpperCase
             THEN <<acc>> \o EnglishCut(t, j, <<>>)
             ELSE EnglishCut(t, i + 1, Append(acc, t[i]))

\* s.split(";")
RECURSIVE SplitAt(_, _, _)
SplitAt(t, delim, acc) ==
    IF t = <<>> THEN <<acc>>
    ELSE IF Head(t) = delim THEN <<acc>> \o SplitAt(Tail(t), delim, <<>>)
         ELSE SplitAt(Tail(t), delim, Append(acc, Head(t)))

\* the clause list of the English fallback (122-123): every non-blank piece,
\* trimmed, with a semicolon put at its end
RECURSIVE WithSemicolon(_)
WithSemicolon(pieces) ==
    IF pieces = <<>> THEN <<>>
    ELSE LET s == Strip(Head(pieces))
         IN  IF s = <<>> THEN WithSemicolon(Tail(pieces))
             ELSE <<IF s[Len(s)] = ";" THEN s ELSE Append(s, ";")>>
                      \o WithSemicolon(Tail(pieces))

\* the fallback of split_english_sentences for one sentence (117-126)
EnglishFallback(sent, max_len) ==
    IF Len(sent) <= max_len THEN <<sent>>
    ELSE IF \E k \in 1..Len(sent) : sent[k] = ";"
         THEN WithSemicolon(SplitAt(sent, ";", <<>>))
         ELSE <<sent>>

\* the result list of split_english_sentences (115-126)
RECURSIVE EnglishResult(_, _)
EnglishResult(sentences, max_len) ==
    IF sentences = <<>> THEN <<>>
    ELSE EnglishFallback(Head(sentences), max_len) \o EnglishResult(Tail(sentences), max_len)

split_english_sentences(t, sentence_end_marks, max_len) ==
    IF Strip(t) = <<>> THEN <<>>
    ELSE EnglishResult(StripNonBlank(EnglishCut(t, 1, <<>>)), max_len)

\* text.replace('\r\n', '\n').replace('\r', '\n') (149)
RECURSIVE NormaliseNewlines(_)
NormaliseNewlines(t) ==
    IF t = <<>> THEN <<>>
    ELSE IF Len(t) >= 2 /\ t[1] = CR /\ t[2] = NL
         THEN <<NL>> \o NormaliseNewlines(SubSeq(t, 3, Len(t)))
         ELSE <<IF t[1] = CR THEN NL ELSE t[1]>> \o NormaliseNewlines(Tail(t))

\* t without its leading newlines
RECURSIVE DropNewlines(_)
DropNewlines(t) == IF t # <<>> /\ Head(t) = NL THEN DropNewlines(Tail(t)) ELSE t

\* the split, were it made at every run of one or more newlines
RECURSIVE SplitBlankLines_every_newline(_, _)
SplitBlankLines_every_newline(t, acc) ==
    IF t = <<>> THEN <<acc>>
    ELSE IF t[1] = NL
         THEN <<acc>> \o SplitBlankLines_every_newline(DropNewlines(t), <<>>)
         ELSE SplitBlankLines_every_newline(Tail(t), Append(acc, Head(t)))

\* re.split at every run of two or more newlines (156); acc is the piece read
\* so far
RECURSIVE SplitBlankLines(_, _)
SplitBlankLines(t, acc) ==
    IF t = <<>> THEN <<acc>>
    ELSE IF Len(t) >= 2 /\ t[1] = NL /\ t[2] = NL
         THEN <<acc>> \o SplitBlankLines(DropNewlines(t), <<>>)
         ELSE SplitBlankLines(Tail(t), Append(acc, Head(t)))

\* the offset of the first character at or after pos that is no newline
\* (176-177)
RECURSIVE PastNewlines(_, _)
PastNewlines(t, pos) ==
    IF pos < Len(t) /\ t[pos + 1] = NL THEN PastNewlines(t, pos + 1) ELSE pos

\* the loop of split_paragraphs (158-177) over the remaining parts
RECURSIVE ParagraphLoop(_, _, _)
ParagraphLoop(t, parts, current_pos) ==
    IF parts = <<>> THEN <<>>
    ELSE LET part == Head(parts)
         IN  IF Strip(part) = <<>>
             THEN ParagraphLoop(t, Tail(parts), current_pos + Len(part) + 2)
             ELSE LET found == Find(t, part, current_pos)
                      start == IF found = -1 THEN current_pos ELSE found
                      end == start + Len(part)
                  IN  <<<<start, end, Strip(part)>>>>
                          \o ParagraphLoop(t, Tail(parts), PastNewlines(t, end))

split_paragraphs(t) ==
    IF t = <<>> THEN <<>>
    ELSE LET normal == NormaliseNewlines(t)
         IN  ParagraphLoop(normal, SplitBlankLines(normal, <<>>), 0)

split_at_nearest_space(t, target_pos, window) ==
    IF target_pos >= Len(t) THEN Len(t)
    ELSE LET start == Max(0, target_pos - window)
             end == Min(Len(t), target_pos + window)
             backward == {i \in (start + 1)..target_pos : t[i + 1] \in SpaceChars}
             forward == {i \in target_pos..(end - 1) : t[i + 1] \in SpaceChars}
         IN  IF backward # {} THEN CHOOSE i \in backward : \A m \in backward : m <= i
             ELSE IF forward # {} THEN CHOOSE i \in forward : \A m \in forward : i <= m
             ELSE target_pos

(***************************************************************************)
(* TextSplitter._split_long_paragraph (splitter.py 221-328).  A sentence   *)
(* of the processed list is a record: sent is the string the code holds,   *)
(* hard is history, TRUE for a fragment made by the hard split.            *)
(***************************************************************************)
\* the window given to split_at_nearest_space (268)
HardSplitWindow == 100

\* the sentence splitter of the language (240-251)
sentences_of(para_text, lang, max_len) ==
    IF lang = "zh"
    THEN split_chinese_sentences(para_text, sentence_end_punctuation, max_len)
    ELSE split_english_sentences(para_text, sentence_end_punctuation \cap EnglishMarks,
                                 max_len)

\* the hard split of one sentence (265-272)
RECURSIVE HardSplit(_, _)
HardSplit(remaining, size) ==
    IF Len(remaining) > size
    THEN LET split_pos == split_at_nearest_space(remaining, size, HardSplitWindow)
         IN  <<Strip(Slice(remaining, 0, split_pos))>>
                 \o HardSplit(Strip(SliceFrom(remaining, split_pos)), size)
    ELSE IF remaining # <<>> THEN <<remaining>> ELSE <<>>

\* processed_sentences (256-275)
RECURSIVE ProcessedSentences(_, _)
ProcessedSentences(sentences, size) ==
    IF sentences = <<>> THEN <<>>
    ELSE LET sent == Head(sentences)
             parts == HardSplit(sent, size)
         IN  (IF Len(sent) > size
              THEN [m \in 1..Len(parts) |-> [sent |-> parts[m], hard |-> TRUE]]
              ELSE <<[sent |-> sent, hard |-> FALSE]>>)
                 \o ProcessedSentences(Tail(sentences), size)

\* the overlap, were it to keep the last sentence only
OverlapSentences_last_only(current, overlap, kept, overlap_len) ==
    IF current = <<>> THEN [sentences |-> kept, length |-> overlap_len]
    ELSE LET s == current[Len(current)]
         IN  IF overlap_len + Len(s.sent) > overlap
             THEN [sentences |-> kept, length |-> overlap_len]
             ELSE [sentences |-> <<s>> \o kept, length |-> overlap_len + Len(s.sent)]

\* the sentences kept for the overlap (294-302): the longest run of trailing
\* sentences of total length <= overlap
RECURSIVE OverlapSentences(_, _, _, _)
OverlapSentences(current, overlap, kept, overlap_len) ==
    IF current = <<>> THEN [sentences |-> kept, length |-> overlap_len]
    ELSE LET s == current[Len(current)]
         IN  IF overlap_len + Len(s.sent) > overlap
             THEN [sentences |-> kept, length |-> overlap_len]
             ELSE OverlapSentences(SubSeq(current, 1, Len(current) - 1), overlap,
                                   <<s>> \o kept, overlap_len + Len(s.sent))

\* the merge loop (282-314): the chunks, each as its list of sentences
RECURSIVE MergeSentences(_, _, _, _, _)
MergeSentences(processed, current, current_length, size, overlap) ==
    IF processed = <<>> THEN (IF current # <<>> THEN <<current>> ELSE <<>>)
    ELSE LET sent == Head(processed)
             close == current_length + Len(sent.sent) > size /\ current # <<>>
             kept == IF ~close THEN [sentences |-> current, length |-> current_length]
                     ELSE IF overlap > 0 THEN OverlapSentences(current, overlap, <<>>, 0)
                     ELSE [sentences |-> <<>>, length |-> 0]
         IN  (IF close THEN <<current>> ELSE <<>>)
                 \o MergeSentences(Tail(processed), Append(kept.sentences, sent),
                                   kept.length + Len(sent.sent), size, overlap)

\* "".join(current_chunk_sentences) (288, 313)
ChunkText(sentences) == Concat([m \in 1..Len(sentences) |-> sentences[m].sent])

\* the position tuples (317-326) of the chunks from current_pos on
RECURSIVE Positions(_, _, _)
Positions(merged, current_pos, overlap) ==
    IF merged = <<>> THEN <<>>
    ELSE LET chunk == ChunkText(Head(merged))
             end == current_pos + Len(chunk)
         IN  <<<<current_pos, end, chunk>>>>
                 \o Positions(Tail(merged), IF overlap > 0 THEN end - overlap ELSE end, overlap)

\* the chunks of a long paragraph, as lists of sentences
MergedSentences(para_text, lang, size, overlap) ==
    MergeSentences(ProcessedSentences(sentences_of(para_text, lang, size * 2), size),
                   <<>>, 0, size, overlap)

split_long_paragraph(para_text, para_start, lang, size, overlap) ==
    Positions(MergedSentences(para_text, lang, size, overlap), para_start, overlap)

(***************************************************************************)
(* TextSplitter.split_text, paragraph-aware branch, and                    *)
(* TextSplitter._split_text_paragraph_aware (splitter.py 159-164, 181-219).*)
(***************************************************************************)
\* longest paragraph-aware input text, in characters
MaxParaLen == 5
\* largest chunk_size of a paragraph-aware splitter
MaxParaChunk == 2
\* split_text calls made on one paragraph-aware splitter
MaxParaCalls == 1

\* the alphabet of the paragraph-aware texts: a letter, a sentence-end mark
\* of both languages, a comma, and the newline (whitespace and, doubled, the
\* paragraph break)
ParaAlphabet == {"A", ".", ",", NL}

InitPara ==
    /\ chunk_size \in 1..MaxParaChunk
    /\ chunk_overlap \in 0..chunk_size
    /\ paragraph_aware = TRUE
    /\ language \in {"zh", "en"}
    /\ header_hook = <<>>
    /\ text \in TextsUpTo(ParaAlphabet, MaxParaLen)
    /\ pc = "ready"
    /\ err = "none"
    /\ results = <<>>
    /\ splits = <<>> /\ protect = <<>> /\ idx = 1
    /\ cur_chunk = <<>> /\ cur_len = 0 /\ cur_start = 0
    /\ chunks = <<>>
    /\ cur_units = <<>> /\ chunk_units = <<>>
    /\ paragraphs = <<>> /\ para_idx = 1 /\ chunk_sents = <<>>
    /\ sent_max_len = 0 /\ ret = <<>>
    /\ ParserIdle

\* split_text up to the paragraph loop (159-164, 199-202)
split_text_paragraph_aware ==
    /\ pc = "ready"
    /\ Len(results) < MaxParaCalls
    /\ paragraph_aware
    /\ chunks' = <<>>
    /\ chunk_sents' = <<>>
    /\ para_idx' = 1
    /\ IF IsNoOpInput(text)
       THEN /\ results' = Append(results, <<>>)
            /\ UNCHANGED <<pc, paragraphs>>
       ELSE /\ paragraphs' = split_paragraphs(text)
            /\ pc' = "paragraphs"
            /\ results' = results
    /\ UNCHANGED parser_vars
    /\ UNCHANGED <<cfg_vars, fn_vars, header_hook, text, err, merge_vars, chunk_units>>

\* the test of line 209, with a strict comparison
FitsChunk_strict(para_len, size) == para_len < size

\* whether the paragraph is kept whole (209)
FitsChunk(para_len, size) == para_len <= size

\* one iteration of the paragraph loop for a paragraph that fits (209-211)
keep_paragraph ==
    /\ pc = "paragraphs"
    /\ para_idx <= Len(paragraphs)
    /\ FitsChunk(Len(paragraphs[para_idx][3]), chunk_size)
    /\ chunks' = Append(chunks, paragraphs[para_idx])
    /\ chunk_sents' = Append(chunk_sents,
                             [para |-> para_idx, last |-> TRUE,
                              sents |-> <<[sent |-> paragraphs[para_idx][3], hard |-> FALSE]>>])
    /\ para_idx' = para_idx + 1
    /\ UNCHANGED parser_vars
    /\ UNCHANGED <<cfg_vars, fn_vars, header_hook, text, pc, err, results, merge_vars, chunk_units,
                   paragraphs>>

\* one iteration of the paragraph loop for a paragraph that does not fit
\* (212-216)
split_paragraph ==
    /\ pc = "paragraphs"
    /\ para_idx <= Len(paragraphs)
    /\ ~FitsChunk(Len(paragraphs[para_idx][3]), chunk_size)
    /\ LET para == paragraphs[para_idx]
           merged == MergedSentences(para[3], language, chunk_size, chunk_overlap)
       IN  /\ chunks' = chunks \o split_long_paragraph(para[3], para[1], language,
                                                       chunk_size, chunk_overlap)
           /\ chunk_sents' = chunk_sents \o
                  [k \in 1..Len(merged) |->
                      [para |-> para_idx, last |-> k = Len(merged), sents |-> merged[k]]]
    /\ para_idx' = para_idx + 1
    /\ UNCHANGED parser_vars
    /\ UNCHANGED <<cfg_vars, fn_vars, header_hook, text, pc, err, results, merge_vars, chunk_units,
                   paragraphs>>

\* the return of all_chunks (219, 164)
return_all_chunks ==
    /\ pc = "paragraphs"
    /\ para_idx > Len(paragraphs)
    /\ results' = Append(results, chunks)
    /\ pc' = "ready"
    /\ UNCHANGED parser_vars
    /\ UNCHANGED <<cfg_vars, fn_vars, header_hook, text, err, merge_vars, chunks, chunk_units,
                   para_vars>>

NextPara == split_text_paragraph_aware \/ keep_paragraph \/ split_paragraph \/ return_all_chunks

SpecPara == InitPara /\ [][NextPara]_vars

(***************************************************************************)
(* Properties of paragraph-aware mode (SpecPara).                          *)
(***************************************************************************)
\* t ends with one of the characters
EndsWith(t, chars) == t # <<>> /\ t[Len(t)] \in chars

\* the sentences of a paragraph as cut at the sentence-end marks alone, no
\* sentence being long enough for the fallback
MarkSentences(para_text) == sentences_of(para_text, language, Len(para_text))

\* no sentence of the paragraph, as cut at the sentence-end marks, is longer
\* than chunk_size
SentencesFit(para_text) ==
    LET sentences == MarkSentences(para_text)
    IN  \A m \in 1..Len(sentences) : Len(sentences[m]) <= chunk_size

\* C3: in paragraph-aware mode every emitted chunk whose constituent
\* sentences are each no longer than chunk_size has a content no longer than
\* chunk_size, also when it starts with overlap sentences carried over from
\* the chunk closed before it.
C3_ParaSizeBound ==
    paragraph_aware =>
        \A k \in 1..Len(chunks) :
            (\A m \in 1..Len(chunk_sents[k].sents) :
                 Len(chunk_sents[k].sents[m].sent) <= chunk_size)
                => Len(chunks[k][3]) <= chunk_size

\* C5 as claimed: in paragraph-aware mode no emitted chunk's content ends
\* with a comma, hard-split fragments included.
C5_NoCommaEnd ==
    paragraph_aware => \A k \in 1..Len(chunks) : ~EndsWith(chunks[k][3], Commas)

\* C5 amended: in paragraph-aware mode an emitted chunk's content ends with a
\* comma only if the chunk is the last (or only) chunk of its paragraph or its
\* last constituent is a fragment made by the hard split of a sentence longer
\* than chunk_size: sentence splitting itself never ends a chunk at a comma.
C5_CommaEndOnlyUnsplit ==
    paragraph_aware =>
        \A k \in 1..Len(chunks) :
            EndsWith(chunks[k][3], Commas) =>
                LET info == chunk_sents[k]
                IN  IF info.last THEN TRUE ELSE info.sents[Len(info.sents)].hard

\* C5 witness: a chunk closed before the end of its paragraph, made of whole
\* sentences, with a comma inside it
C5_Witness ==
    \E k \in 1..Len(chunks) :
        /\ ~chunk_sents[k].last
        /\ \A m \in 1..Len(chunk_sents[k].sents) : ~chunk_sents[k].sents[m].hard
        /\ \E n \in 1..Len(chunks[k][3]) : chunks[k][3][n] \in Commas

\* C6 as claimed: in paragraph-aware mode, for every paragraph longer than
\* chunk_size, every chunk of it except its last one ends with a sentence-end
\* mark.
C6_SentenceEnd ==
    paragraph_aware =>
        \A k \in 1..Len(chunks) :
            (/\ Len(paragraphs[chunk_sents[k].para][3]) > chunk_size
             /\ ~chunk_sents[k].last)
                => EndsWith(chunks[k][3], sentence_end_punctuation)

\* C6 amended: in paragraph-aware mode, for every paragraph longer than
\* chunk_size in which no sentence, as cut at the sentence-end marks, is
\* longer than chunk_size, every chunk of it except its last one ends with a
\* sentence-end mark.
C6_SentenceEndWhenSentencesFit ==
    paragraph_aware =>
        \A k \in 1..Len(chunks) :
            (/\ ~chunk_sents[k].last
             /\ Len(paragraphs[chunk_sents[k].para][3]) > chunk_size
             /\ SentencesFit(paragraphs[chunk_sents[k].para][3]))
                => EndsWith(chunks[k][3], sentence_end_punctuation)

\* C6 witness: a split paragraph whose sentences all fit, with a chunk that is
\* not its last one, returned by split_text
C6_Witness ==
    /\ pc = "ready"
    /\ results # <<>>
    /\ \E k \in 1..Len(chunks) :
           /\ Len(paragraphs[chunk_sents[k].para][3]) > chunk_size
           /\ SentencesFit(paragraphs[chunk_sents[k].para][3])
           /\ ~chunk_sents[k].last

\* the trimmed non-blank segments of the text between its blank lines
TrimmedParagraphs == StripNonBlank(SplitBlankLines(NormaliseNewlines(text), <<>>))

\* C10: in paragraph-aware mode every paragraph whose trimmed length is at
\* most chunk_size is emitted as exactly one chunk, whose content is the
\* trimmed paragraph whatever punctuation it holds: it is neither subdivided
\* nor merged with a neighbouring paragraph.
C10_ShortParagraphWhole ==
    (paragraph_aware /\ (pc = "paragraphs" \/ results # <<>>)) =>
        LET trimmed == TrimmedParagraphs
        IN  /\ Len(paragraphs) = Len(trimmed)
            /\ \A i \in 1..Len(paragraphs) :
                   (i < para_idx /\ Len(trimmed[i]) <= chunk_size) =>
                       LET own == {k \in 1..Len(chunks) : chunk_sents[k].para = i}
                       IN  /\ Cardinality(own) = 1
                           /\ \A k \in own : /\ chunks[k][3] = trimmed[i]
                                             /\ chunks[k] = paragraphs[i]

\* C10 witness: a returned chunk list for a text with a paragraph of exactly
\* chunk_size characters that holds punctuation, next to a paragraph that was
\* split
C10_Witness ==
    /\ pc = "ready"
    /\ results # <<>>
    /\ \E i, j \in 1..Len(paragraphs) :
           /\ i # j
           /\ Len(paragraphs[i][3]) = chunk_size
           /\ \E n \in 1..Len(paragraphs[i][3]) :
                  paragraphs[i][3][n] \in Commas \cup sentence_end_punctuation
           /\ Len(paragraphs[j][3]) > chunk_size

(***************************************************************************)
(* Offsets of the chunks of paragraph-aware mode.                          *)
(***************************************************************************)

\* C11: in paragraph-aware mode every emitted chunk <<start, end, content>>
\* has Len(content) = end - start, a short paragraph emitted whole as well as
\* a chunk of a split paragraph.
C11_ContentLength ==
    paragraph_aware =>
        \A k \in 1..Len(chunks) :
            Len(chunks[k][3]) = chunks[k][2] - chunks[k][1]

\* C12: in paragraph-aware mode every emitted chunk has 0 <= start < end,
\* the second and later chunks of a split paragraph included, whose start is
\* the end of the chunk before minus chunk_overlap.
C12_OffsetsOrdered ==
    paragraph_aware =>
        \A k \in 1..Len(chunks) :
            /\ 0 <= chunks[k][1]
            /\ chunks[k][1] < chunks[k][2]

(***************************************************************************)
(* Offsets and coverage of the chunks of legacy mode.                      *)
(***************************************************************************)

\* C13 as claimed: in legacy mode every emitted chunk <<start, end, content>>
\* has content = text[start:end], whatever the overlap and the heading
\* tracker's output, chunks with a prepended heading included.
C13_ExactSubstring ==
    ~paragraph_aware =>
        \A k \in 1..Len(chunks) :
            chunks[k][3] = Slice(text, chunks[k][1], chunks[k][2])

\* C13 amended: in legacy mode every emitted chunk without a prepended
\* heading has content = text[start:end]; the content of a chunk with a
\* prepended heading is a non-empty heading followed by text[s:end], where s
\* is the start offset of the chunk's first unit.
C13_ExactSubstringWithoutHeading ==
    ~paragraph_aware =>
        \A k \in 1..Len(chunks) :
            LET c == chunks[k]
                us == chunk_units[k]
            IN  IF us[1] # 0
                THEN c[3] = Slice(text, c[1], c[2])
                ELSE LET s == UnitStart(us[2])
                     IN  /\ Len(c[3]) > c[2] - s
                         /\ SliceFrom(c[3], Len(c[3]) - (c[2] - s)) = Slice(text, s, c[2])

\* C13 witness: a returned chunk list in which a chunk without a prepended
\* heading starts with a unit retained from the chunk before it, while the
\* tracker holds a heading and another chunk has that heading prepended
C13_Witness ==
    /\ pc = "ready"
    /\ ~paragraph_aware
    /\ HeaderTracker_get_headers(header_hook) # <<>>
    /\ \E k \in 2..Len(chunks) :
           /\ chunk_units[k][1] # 0
           /\ Len(chunk_units[k]) >= 2
           /\ chunk_units[k][1] = chunk_units[k - 1][Len(chunk_units[k - 1])]
    /\ \E k \in 1..Len(chunks) : chunk_units[k][1] = 0

\* the units of emitted chunk k, without the mark of a prepended heading
BodyUnits(k) ==
    IF chunk_units[k][1] = 0 THEN Tail(chunk_units[k]) ELSE chunk_units[k]

\* C14: in legacy mode every unit of the joined stream is in at least one
\* emitted chunk and the units appear in the chunks in their original order:
\* each chunk holds consecutive units, the first chunk begins with the first
\* unit, the last one ends with the last unit, each chunk begins no later
\* than where the chunk before it ended and ends after it, so that,
\* disregarding prepended headings, the chunks cover every position from 0 to
\* Len(text) and the only repeated text is a suffix of one chunk retained at
\* the front of the next.
C14_Coverage ==
    /\ (pc = "merge" /\ ~paragraph_aware) =>
           \A u \in 1..(idx - 1) :
               \/ \E m \in 1..Len(cur_units) : cur_units[m] = u
               \/ \E k \in 1..Len(chunks) : \E m \in 1..Len(chunk_units[k]) :
                      chunk_units[k][m] = u
    /\ (pc = "ready" /\ ~paragraph_aware /\ results # <<>> /\ text # <<>>) =>
           LET n == Len(chunks)
               first(k) == BodyUnits(k)[1]
               last(k) == BodyUnits(k)[Len(BodyUnits(k))]
           IN  /\ n >= 1
               /\ Concat(splits) = text
               /\ \A u \in 1..Len(splits) :
                      \E k \in 1..n : first(k) <= u /\ u <= last(k)
               /\ \A k \in 1..n :
                      /\ BodyUnits(k) = [m \in 1..(last(k) - first(k) + 1) |-> first(k) + m - 1]
                      /\ chunks[k][2] = UnitStart(last(k) + 1)
                      /\ SliceFrom(chunks[k][3],
                                   Len(chunks[k][3]) - (chunks[k][2] - UnitStart(first(k))))
                             = Slice(text, UnitStart(first(k)), chunks[k][2])
               /\ first(1) = 1
               /\ last(n) = Len(splits)
               /\ \A k \in 1..(n - 1) :
                      /\ first(k) <= first(k + 1)
                      /\ first(k + 1) <= last(k) + 1
                      /\ last(k) < last(k + 1)

\* C14 witness: a returned chunk list of at least three chunks over at least
\* four units, in which one chunk begins with a unit retained from the chunk
\* before it and another begins right after the chunk before it
C14_Witness ==
    /\ pc = "ready"
    /\ ~paragraph_aware
    /\ Len(splits) >= 4
    /\ Len(chunks) >= 3
    /\ \E k \in 2..Len(chunks) : BodyUnits(k)[1] = BodyUnits(k - 1)[Len(BodyUnits(k - 1))]
    /\ \E k \in 2..Len(chunks) : BodyUnits(k)[1] = BodyUnits(k - 1)[Len(BodyUnits(k - 1))] + 1

\* the units at the front of the unit list next that come from the closed
\* chunk whose unit list is closed
RetainedUnits(closed, next) ==
    LET body == IF next # <<>> /\ next[1] = 0 THEN Tail(next) ELSE next
        r == Cardinality({m \in 1..Len(body) : body[m] <= closed[Len(closed)]})
    IN  SubSeq(body, 1, r)

\* whether the units retained from a closed chunk are a suffix of its units,
\* of total length at most chunk_overlap
RetainedWithinOverlap(closed, next) ==
    LET kept == RetainedUnits(closed, next)
    IN  /\ Len(kept) <= Len(closed)
        /\ kept = SubSeq(closed, Len(closed) - Len(kept) + 1, Len(closed))
        /\ \A m \in 1..Len(kept) : kept[m] # 0
        /\ Len(Concat([m \in 1..Len(kept) |-> splits[kept[m]]])) <= chunk_overlap

\* C16: in legacy mode, whenever a chunk is closed, the units retained from
\* it to start the next chunk are a suffix of the closed chunk's units and
\* their total length, the prepended heading not counted, is at most
\* chunk_overlap.
C16_RetainedSuffix ==
    ~paragraph_aware =>
        /\ \A k \in 2..Len(chunks) :
               RetainedWithinOverlap(chunk_units[k - 1], chunk_units[k])
        /\ (pc = "merge" /\ chunks # <<>>) =>
               RetainedWithinOverlap(chunk_units[Len(chunks)], cur_units)

\* C16 witness: a chunk was closed and two of its units, not all of them,
\* start the next chunk, behind a prepended heading
C16_Witness ==
    /\ pc = "merge"
    /\ chunks # <<>>
    /\ cur_units[1] = 0
    /\ Len(RetainedUnits(chunk_units[Len(chunks)], cur_units)) = 2
    /\ Len(chunk_units[Len(chunks)]) > 2

(***************************************************************************)
(* The characters of the chunks of paragraph-aware mode.                   *)
(***************************************************************************)

\* the characters of t that are not white space, in order
RECURSIVE NonSpace(_)
NonSpace(t) ==
    IF t = <<>> THEN <<>>
    ELSE (IF Head(t) \in Whitespace THEN <<>> ELSE <<Head(t)>>) \o NonSpace(Tail(t))

\* the number of sentences at the front of emitted chunk k that were retained
\* as overlap from the chunk before it
CarriedSentences(k) ==
    IF k > 1 /\ chunk_overlap > 0 /\ chunk_sents[k - 1].para = chunk_sents[k].para
    THEN Len(OverlapSentences(chunk_sents[k - 1].sents, chunk_overlap, <<>>, 0).sentences)
    ELSE 0

\* the content of emitted chunk k behind its retained overlap
NewText(k) ==
    ChunkText(SubSeq(chunk_sents[k].sents, CarriedSentences(k) + 1,
                     Len(chunk_sents[k].sents)))

\* C15: in paragraph-aware mode the characters of the input text that are
\* not white space are, in order, the characters that are not white space of
\* the returned chunks with the overlap retained between consecutive chunks
\* of one paragraph left out: none is dropped and none is added.
C15_NoCharacterLost ==
    (pc = "ready" /\ paragraph_aware /\ results # <<>>) =>
        NonSpace(Concat([k \in 1..Len(chunks) |-> NewText(k)])) = NonSpace(text)

(***************************************************************************)
(* TextSplitter._split_protected (splitter.py 478-512) called alone on a   *)
(* text and a chunk_size.                                                  *)
(***************************************************************************)
MaxProtTokens == 5
MaxProtChunk == 6

\* the texts given to _split_protected are made of these pieces
ProtTokens == {<<"$", "$">>, <<"|">>, <<NL>>, <<"a">>}

\* all texts made of 0..n pieces
RECURSIVE TokenTexts(_, _)
TokenTexts(tokens, n) ==
    IF n = 0 THEN {<<>>}
    ELSE LET shorter == TokenTexts(tokens, n - 1)
         IN  shorter \cup {t \o c : t \in shorter, c \in tokens}

\* the state of a splitter on which split_text was never called
NoCallState ==
    /\ header_hook = <<>>
    /\ err = "none"
    /\ results = <<>>
    /\ splits = <<>> /\ protect = <<>> /\ idx = 1
    /\ cur_chunk = <<>> /\ cur_len = 0 /\ cur_start = 0
    /\ chunks = <<>>
    /\ cur_units = <<>> /\ chunk_units = <<>>
    /\ paragraphs = <<>> /\ para_idx = 1 /\ chunk_sents = <<>>
    /\ ParserIdle

InitProtected ==
    /\ chunk_size \in 1..MaxProtChunk
    /\ chunk_overlap = 0
    /\ paragraph_aware = FALSE
    /\ language = "zh"
    /\ text \in TokenTexts(ProtTokens, MaxProtTokens)
    /\ pc = "call"
    /\ sent_max_len = 0 /\ ret = <<>>
    /\ NoCallState

call_split_protected ==
    /\ pc = "call"
    /\ ret' = split_protected(text, chunk_size)
    /\ pc' = "returned"
    /\ UNCHANGED parser_vars
    /\ UNCHANGED <<cfg_vars, sent_max_len, header_hook, text, err, results, merge_vars, chunks,
                   chunk_units, para_vars>>

NextProtected == call_split_protected

SpecProtected == InitProtected /\ [][NextProtected]_vars

\* the matches <<start, end>> of all protected patterns in t
AllMatches(t) ==
    UNION {{FindIter(protected_regex[p], t, 0)[k] :
               k \in 1..Len(FindIter(protected_regex[p], t, 0))} :
           p \in 1..Len(protected_regex)}

\* offset pos lies in one of the returned spans <<start, text>>
InReturnedSpan(pos) ==
    \E j \in 1..Len(ret) : ret[j][1] <= pos /\ pos < ret[j][1] + Len(ret[j][2])

\* C17: the spans returned by _split_protected cover every character of
\* every pattern match that is shorter than chunk_size, also when two matches
\* overlap.
C17_MatchesCovered ==
    pc = "returned" =>
        \A m \in AllMatches(text) :
            m[2] - m[1] < chunk_size =>
                \A pos \in m[1]..(m[2] - 1) : InReturnedSpan(pos)

(***************************************************************************)
(* split_chinese_sentences and split_english_sentences (sentence_split.py  *)
(* 12-128) called alone on a text and a max_len, with the marks the        *)
(* splitter passes.                                                        *)
(***************************************************************************)
MaxSentLen == 4
MaxMaxLen == 3

\* the texts given to the sentence splitter of a language
SentenceAlphabet(lang) ==
    IF lang = "zh" THEN {"A", ZhStop, ZhSemi, ZhComma, ZhColon, SP}
    ELSE {"A", "a", ".", ";", ",", ":", SP}

InitSentences ==
    /\ chunk_size = 1
    /\ chunk_overlap = 0
    /\ paragraph_aware = TRUE
    /\ language \in {"zh", "en"}
    /\ text \in TextsUpTo(SentenceAlphabet(language), MaxSentLen)
    /\ sent_max_len \in 1..MaxMaxLen
    /\ pc = "call"
    /\ ret = <<>>
    /\ NoCallState

call_split_chinese_sentences ==
    /\ pc = "call"
    /\ language = "zh"
    /\ ret' = split_chinese_sentences(text, sentence_end_punctuation, sent_max_len)
    /\ pc' = "returned"
    /\ UNCHANGED parser_vars
    /\ UNCHANGED <<cfg_vars, sent_max_len, header_hook, text, err, results, merge_vars,
                   chunks, chunk_units, para_vars>>

call_split_english_sentences ==
    /\ pc = "call"
    /\ language = "en"
    /\ ret' = split_english_sentences(text, sentence_end_punctuation \cap EnglishMarks,
                                      sent_max_len)
    /\ pc' = "returned"
    /\ UNCHANGED parser_vars
    /\ UNCHANGED <<cfg_vars, sent_max_len, header_hook, text, err, results, merge_vars,
                   chunks, chunk_units, para_vars>>

NextSentences == call_split_chinese_sentences \/ call_split_english_sentences

SpecSentences == InitSentences /\ [][NextSentences]_vars

\* no sentence of the text, as cut by the sentence pattern alone, is longer
\* than max_len
NoLongSentence ==
    LET sentences == sentences_of(text, language, Len(text))
    IN  \A m \in 1..Len(sentences) : Len(sentences[m]) <= sent_max_len

\* the colons of both languages
Colons == {ZhColon, ":"}

\* the sentences occur in t from offset from on in their order, and every
\* character of t outside them is white space or a mark
RECURSIVE InOrderBetweenMarks(_, _, _, _)
InOrderBetweenMarks(sentences, t, from, marks) ==
    IF sentences = <<>>
    THEN \A n \in (from + 1)..Len(t) : t[n] \in Whitespace \cup marks
    ELSE LET at == Find(t, Head(sentences), from)
         IN  /\ at # -1
             /\ \A n \in (from + 1)..at : t[n] \in Whitespace \cup marks
             /\ InOrderBetweenMarks(Tail(sentences), t, at + Len(Head(sentences)), marks)

\* C19: for a text in which no sentence exceeds max_len,
\* split_chinese_sentences cuts only right after a configured sentence-end
\* mark: every returned sentence but the last ends with a mark, no sentence
\* holds a mark before its last character, so no sentence boundary falls at a
\* comma or colon; the sentences are in text order; and an empty or
\* whitespace-only text yields the empty list.
C19_ChineseCutsAfterMarks ==
    (pc = "returned" /\ language = "zh" /\ NoLongSentence) =>
        /\ Strip(text) = <<>> => ret = <<>>
        /\ \A i \in 1..Len(ret) :
               /\ ret[i] # <<>>
               /\ \A n \in 1..(Len(ret[i]) - 1) : ret[i][n] \notin sentence_end_punctuation
               /\ i < Len(ret) => /\ EndsWith(ret[i], sentence_end_punctuation)
                                  /\ ~EndsWith(ret[i], Commas \cup Colons)
        /\ InOrderBetweenMarks(ret, text, 0, sentence_end_punctuation)

\* C19 witness: split_chinese_sentences returned at least two sentences, none
\* longer than max_len, for a text that holds a comma or a colon
C19_Witness ==
    /\ pc = "returned"
    /\ language = "zh"
    /\ NoLongSentence
    /\ Len(ret) >= 2
    /\ \E n \in 1..Len(text) : text[n] \in Commas \cup Colons

\* the whitespace runs <<first, next>> of t, 1-based, that follow a mark and
\* are followed, at next, by an upper-case letter
CutRuns(t) ==
    {r \in (2..Len(t)) \X (2..Len(t)) :
        /\ r[1] < r[2]
        /\ t[r[1] - 1] \in EnglishMarks
        /\ \A n \in r[1]..(r[2] - 1) : t[n] \in Whitespace
        /\ t[r[2]] \in UpperCase}

\* the elements of a set of numbers in ascending order
RECURSIVE Ascending(_)
Ascending(S) ==
    IF S = {} THEN <<>>
    ELSE LET least == CHOOSE x \in S : \A y \in S : x <= y
         IN  <<least>> \o Ascending(S \ {least})

\* the pieces of t between its cut runs
PiecesBetweenRuns(t) ==
    LET starts == Ascending({1} \cup {r[2] : r \in CutRuns(t)})
        ends == Ascending({Len(t)} \cup {r[1] - 1 : r \in CutRuns(t)})
    IN  [k \in 1..Len(starts) |-> SubSeq(t, starts[k], ends[k])]

MaxTermLen == 3
MaxTermChunk == 4

TermAlphabet == {NL, "|", "A", "."}

\* before the caller has made the splitter
InitTerminates ==
    /\ chunk_size = 1
    /\ chunk_overlap = 0
    /\ paragraph_aware = FALSE
    /\ language = "zh"
    /\ text = <<>>
    /\ pc = "start"
    /\ sent_max_len = 0 /\ ret = <<>>
    /\ NoCallState

\* TextSplitter(chunk_size, chunk_overlap, paragraph_aware, language) with
\* chunk_size >= 1 and 0 <= chunk_overlap <= chunk_size (126-148), and the
\* caller's choice of the text for split_text
TextSplitter_new ==
    /\ pc = "start"
    /\ \E size \in 1..MaxTermChunk, aware \in BOOLEAN, t \in TextsUpTo(TermAlphabet, MaxTermLen) :
           \E overlap \in 0..size, lang \in (IF aware THEN {"zh", "en"} ELSE {"zh"}) :
               /\ chunk_size' = size
               /\ chunk_overlap' = overlap
               /\ paragraph_aware' = aware
               /\ language' = lang
               /\ text' = t
               /\ IF ConstructorRejects(size, overlap)
                  THEN pc' = "raised" /\ err' = "ValueError"
                  ELSE pc' = "ready" /\ err' = err
    /\ UNCHANGED parser_vars
    /\ UNCHANGED <<fn_vars, header_hook, results, merge_vars, chunks, chunk_units, para_vars>>

NextTerminates ==
    \/ TextSplitter_new
    \/ split_text_legacy
    \/ merge_split
    \/ merge_flush
    \/ split_text_paragraph_aware
    \/ keep_paragraph
    \/ split_paragraph
    \/ return_all_chunks

\* the guard of split_paragraph, which is its enabling condition: what
\* follows the guard in the action only assigns
SplitParagraphEnabled ==
    /\ pc = "paragraphs"
    /\ para_idx <= Len(paragraphs)
    /\ ~FitsChunk(Len(paragraphs[para_idx][3]), chunk_size)

\* A call that was started runs on: the loops of _merge and of
\* _split_text_paragraph_aware are sequential code, so each of their steps is
\* taken once it can be.  The weak fairness of split_paragraph is written out
\* with SplitParagraphEnabled in the place of ENABLED <<split_paragraph>>_vars.
SpecTerminates ==
    /\ InitTerminates
    /\ [][NextTerminates]_vars
    /\ WF_vars(merge_split \/ merge_flush \/ keep_paragraph \/ return_all_chunks)
    /\ ([]<>(~SplitParagraphEnabled) \/ []<><<split_paragraph>>_vars)

\* C18: for every text and every configuration with chunk_size >= 1 and
\* 0 <= chunk_overlap <= chunk_size, in both modes, no step of the
\* construction or of split_text raises, and every split_text call that was
\* started returns a chunk list.
C18_Terminates ==
    /\ [](err = "none" /\ pc # "raised")
    /\ (pc \in {"merge", "paragraphs"}) ~> (pc = "ready" /\ results # <<>>)

\* C18 witness: in legacy mode the recursive unit splitter cut a text longer
\* than chunk_size into more than two units, the merger closed a chunk and
\* its final flush found a non-empty buffer, and the call returned
C18_Witness ==
    /\ pc = "ready"
    /\ ~paragraph_aware
    /\ results # <<>>
    /\ Len(splits) > 2
    /\ Len(chunks) >= 2
    /\ cur_chunk # <<>>
    /\ chunk_overlap = chunk_size

\* the semicolons of both languages
Semicolons == {ZhSemi, ";"}

\* the clauses of one sentence as C21 states them: a sentence longer than
\* max_len is cut after each of its semicolons if it holds any, otherwise
\* after each of its colons if it holds any, and is kept whole otherwise
ClausesAtDelimiters(sent, max_len) ==
    IF Len(sent) <= max_len THEN <<sent>>
    ELSE IF \E k \in 1..Len(sent) : sent[k] \in Semicolons
         THEN StripNonBlank(SplitAfter(sent, Semicolons, <<>>))
         ELSE IF \E k \in 1..Len(sent) : sent[k] \in Colons
              THEN StripNonBlank(SplitAfter(sent, Colons, <<>>))
              ELSE <<sent>>

RECURSIVE ClausesOfAll(_, _)
ClausesOfAll(sentences, max_len) ==
    IF sentences = <<>> THEN <<>>
    ELSE ClausesAtDelimiters(Head(sentences), max_len)
             \o ClausesOfAll(Tail(sentences), max_len)

\* C21: split_chinese_sentences and split_english_sentences both return, for
\* each sentence cut by the sentence pattern, its clauses at its semicolons if
\* it is longer than max_len and holds any, otherwise its clauses at its
\* colons if it holds any, each delimiter at the end of the clause before it
\* and no other character added or removed; a sentence with neither delimiter
\* is returned whole.
C21_FallbackAtSemicolonsThenColons ==
    pc = "returned" =>
        ret = ClausesOfAll(sentences_of(text, language, Len(text)), sent_max_len)

\* the same statement for split_chinese_sentences alone
C21_ChineseOnly ==
    (pc = "returned" /\ language = "zh") =>
        ret = ClausesOfAll(sentences_of(text, language, Len(text)), sent_max_len)

(***************************************************************************)
(* split_paragraphs called alone (sentence_split.py 131-179), on every     *)
(* text over letters, spaces and the three line endings.                   *)
(***************************************************************************)
MaxParTextLen == 5

ParagraphTextAlphabet == {"A", SP, NL, CR}

InitParagraphs ==
    /\ chunk_size = 1
    /\ chunk_overlap = 0
    /\ paragraph_aware = TRUE
    /\ language = "zh"
    /\ text \in TextsUpTo(ParagraphTextAlphabet, MaxParTextLen)
    /\ pc = "call"
    /\ sent_max_len = 0 /\ ret = <<>>
    /\ NoCallState

call_split_paragraphs ==
    /\ pc = "call"
    /\ ret' = split_paragraphs(text)
    /\ pc' = "returned"
    /\ UNCHANGED parser_vars
    /\ UNCHANGED <<cfg_vars, sent_max_len, header_hook, text, err, results, merge_vars, chunks,
                   chunk_units, para_vars>>

NextParagraphs == call_split_paragraphs

SpecParagraphs == InitParagraphs /\ [][NextParagraphs]_vars

\* the maximal runs <<first, last>> of two or more newlines of t, 1-based
BlankLineRuns(t) ==
    {r \in (1..Len(t)) \X (1..Len(t)) :
        /\ r[1] < r[2]
        /\ \A n \in r[1]..r[2] : t[n] = NL
        /\ r[1] > 1 => t[r[1] - 1] # NL
        /\ r[2] < Len(t) => t[r[2] + 1] # NL}

\* the segments of t between its runs of two or more newlines, as
\* <<first, last>> positions, 1-based, in text order
SegmentsBetweenBlankLines(t) ==
    LET starts == Ascending({1} \cup {r[2] + 1 : r \in BlankLineRuns(t)})
        ends == Ascending({Len(t)} \cup {r[1] - 1 : r \in BlankLineRuns(t)})
    IN  [k \in 1..Len(starts) |-> <<starts[k], ends[k]>>]

\* the segments of t that hold a character other than white space
NonBlankSegments(t) ==
    LET segments == SegmentsBetweenBlankLines(t)
    IN  SelectSeq(segments, LAMBDA g : Strip(SubSeq(t, g[1], g[2])) # <<>>)

C23_OffsetsIntoOriginal ==
    pc = "returned" =>
        \A i \in 1..Len(ret) :
            /\ 0 <= ret[i][1] /\ ret[i][1] <= ret[i][2] /\ ret[i][2] <= Len(text)
            /\ Strip(Slice(text, ret[i][1], ret[i][2])) = ret[i][3]

\* the same statement for the texts without a carriage return
C23_WithoutCarriageReturn ==
    (pc = "returned" /\ \A n \in 1..Len(text) : text[n] # CR) =>
        \A i \in 1..Len(ret) :
            /\ 0 <= ret[i][1] /\ ret[i][1] <= ret[i][2] /\ ret[i][2] <= Len(text)
            /\ Strip(Slice(text, ret[i][1], ret[i][2])) = ret[i][3]

\* a step of the merger that closes a chunk, or finds the buffer empty, and
\* starts the next buffer with the heading in front: the pop loop always
\* removes the heading of the closed chunk (437-443), so a heading in front
\* of the new buffer was put there by this step
HeadingPrepended ==
    /\ pc = "merge"
    /\ idx <= Len(splits)
    /\ idx' = idx + 1
    /\ cur_units'[1] = 0
    /\ IF cur_units = <<>> THEN TRUE ELSE Len(chunks') > Len(chunks)

\* the units the new buffer retains from the closed chunk, as texts
RetainedTexts(buffer) ==
    {buffer[n][3] : n \in 2..(Len(buffer) - 1)}

\* C24 as stated: the heading is prepended only if it is non-empty, fits
\* within chunk_size together with the incoming unit, and is contained
\* neither in a retained unit nor in the incoming unit.
C24_HeadingNotInRetained ==
    [][HeadingPrepended =>
          LET heading == cur_chunk'[1][3]
          IN  /\ heading # <<>>
              /\ Len(splits[idx]) + Len(heading) < chunk_size
              /\ ~IsSubstr(heading, splits[idx])
              /\ \A kept \in RetainedTexts(cur_chunk') : ~IsSubstr(heading, kept)]_vars

\* C24, amended: the heading is prepended only if it is non-empty, fits
\* within chunk_size together with the incoming unit, and is not contained
\* in the incoming unit; the retained units are not looked at.
C24_HeadingNotInIncoming ==
    [][HeadingPrepended =>
          LET heading == cur_chunk'[1][3]
          IN  /\ heading # <<>>
              /\ Len(splits[idx]) + Len(heading) < chunk_size
              /\ ~IsSubstr(heading, splits[idx])]_vars

\* C24 witness: a buffer that begins with a prepended heading, then a unit
\* retained from the chunk closed last, then the incoming unit
C24_Witness ==
    /\ pc = "merge"
    /\ Len(cur_units) >= 3
    /\ cur_units[1] = 0
    /\ chunk_units # <<>>
    /\ \E n \in 1..Len(chunk_units[Len(chunk_units)]) :
           chunk_units[Len(chunk_units)][n] = cur_units[2]
    /\ ~IsSubstr(cur_chunk[1][3], cur_chunk[Len(cur_chunk)][3])

\* the fragments the hard split made, over all returned chunks
HardFragments ==
    UNION {{chunk_sents[k].sents[m].sent :
                m \in {n \in 1..Len(chunk_sents[k].sents) : chunk_sents[k].sents[n].hard}} :
              k \in 1..Len(chunk_sents)}

\* C25: every fragment the hard split makes of a sentence longer than
\* chunk_size is non-empty and no longer than chunk_size, wherever
\* split_at_nearest_space found the cut.
C25_FragmentsFit ==
    \A fragment \in HardFragments : fragment # <<>> /\ Len(fragment) <= chunk_size

\* the same statement for the non-emptiness alone
C25_FragmentsNonEmpty ==
    \A fragment \in HardFragments : fragment # <<>>

\* the greatest number of trailing sentences of a closed chunk whose lengths
\* add up to no more than the overlap
LongestTail(closed, overlap) ==
    LET fits == {j \in 0..Len(closed) :
                    Len(ChunkText(SubSeq(closed, Len(closed) - j + 1, Len(closed)))) <= overlap}
    IN  CHOOSE j \in fits : \A m \in fits : m <= j

\* C26: in paragraph-aware mode, a chunk that follows a closed chunk of the
\* same split paragraph starts with the longest run of whole trailing
\* sentences of the closed chunk whose combined length is <= chunk_overlap,
\* followed by the incoming sentence; with chunk_overlap = 0 it starts with
\* the incoming sentence alone.
C26_OverlapIsLongestTail ==
    \A k \in 2..Len(chunk_sents) :
        chunk_sents[k - 1].para = chunk_sents[k].para =>
            LET closed == chunk_sents[k - 1].sents
                next == chunk_sents[k].sents
                j == IF chunk_overlap > 0 THEN LongestTail(closed, chunk_overlap) ELSE 0
            IN  /\ Len(next) >= j + 1
                /\ SubSeq(next, 1, j) = SubSeq(closed, Len(closed) - j + 1, Len(closed))
                /\ chunk_overlap = 0 => NewText(k) = ChunkText(next)

\* C26 witness: a chunk of a split paragraph that starts with two sentences
\* retained from the chunk closed before it
C26_Witness ==
    \E k \in 2..Len(chunk_sents) :
        /\ chunk_sents[k - 1].para = chunk_sents[k].para
        /\ chunk_overlap > 0
        /\ Len(chunk_sents[k - 1].sents) >= 2
        /\ LongestTail(chunk_sents[k - 1].sents, chunk_overlap) = 2
        /\ Len(chunk_sents[k].sents) >= 3

(***************************************************************************)
(* _split_protected called alone on texts that hold table headers: a row,  *)
(* a separator line, and the table body rows that start where the header   *)
(* starts.                                                                 *)
(***************************************************************************)
MaxTableTokens == 4
MaxTableChunk == 10

TableTokens == {<<"|", "|", NL>>, <<"|", "-", "-", "-", "|", NL>>, <<"|">>, <<NL>>, <<"$", "$">>}

InitTables ==
    /\ chunk_size \in 1..MaxTableChunk
    /\ chunk_overlap = 0
    /\ paragraph_aware = FALSE
    /\ language = "zh"
    /\ text \in TokenTexts(TableTokens, MaxTableTokens)
    /\ pc = "call"
    /\ sent_max_len = 0 /\ ret = <<>>
    /\ NoCallState

NextTables == call_split_protected

SpecTables == InitTables /\ [][NextTables]_vars

\* C27: the spans returned by _split_protected are pattern matches in
\* ascending start order, pairwise non-overlapping, each strictly shorter
\* than chunk_size; and a returned span is the longest of the matches that
\* start where it starts, the longest being considered first.
C27_SpansOrderedDisjointShort ==
    pc = "returned" =>
        /\ \A j \in 1..Len(ret) :
               LET start == ret[j][1]
                   end == ret[j][1] + Len(ret[j][2])
               IN  /\ <<start, end>> \in AllMatches(text)
                   /\ ret[j][2] = Slice(text, start, end)
                   /\ end - start < chunk_size
                   /\ \A m \in AllMatches(text) : m[1] = start => m[2] <= end
        /\ \A j \in 1..(Len(ret) - 1) : ret[j][1] + Len(ret[j][2]) <= ret[j + 1][1]

\* C27 witness: two spans are returned, and the first is the longer of two
\* matches that start at the same offset
C27_Witness ==
    /\ pc = "returned"
    /\ Len(ret) = 2
    /\ \E m \in AllMatches(text) :
           m[1] = ret[1][1] /\ m[2] < ret[1][1] + Len(ret[1][2])

(***************************************************************************)
(* BaseParser.get_ocr_engine (base_parser.py 29-58).  The method is a      *)
(* classmethod: it reads the two attributes through the class it is called *)
(* on, which inherits BaseParser's until it has its own, and assigns them  *)
(* on that class.  OCREngine.get_instance returns an engine, returns None  *)
(* or raises.                                                              *)
(***************************************************************************)
MaxOcrCalls == 4

\* the engine instances OCREngine.get_instance can return
Engines == {"engine1", "engine2"}

\* what OCREngine.get_instance does (46-48)
GetInstanceOutcomes == Engines \cup {"None", "raised"}

\* the state of the splitter while a parser method is looked at alone
SplitterIdle ==
    /\ chunk_size = 1
    /\ chunk_overlap = 0
    /\ paragraph_aware = TRUE
    /\ language = "zh"
    /\ header_hook = <<>>
    /\ text = <<>>
    /\ err = "none"
    /\ results = <<>>
    /\ splits = <<>> /\ protect = <<>> /\ idx = 1
    /\ cur_chunk = <<>> /\ cur_len = 0 /\ cur_start = 0
    /\ chunks = <<>>
    /\ cur_units = <<>> /\ chunk_units = <<>>
    /\ paragraphs = <<>> /\ para_idx = 1 /\ chunk_sents = <<>>
    /\ sent_max_len = 0

splitter_vars == <<cfg_vars, header_hook, text, err, results, merge_vars, chunks, chunk_units,
                   para_vars, sent_max_len>>

InitOcrEngine ==
    /\ SplitterIdle
    /\ ParserIdle
    /\ pc = "call"
    /\ ret = "None"

\* cls.<attribute>: the class's own attribute, or the one it inherits
ClassAttr(attr, cls) == IF attr[cls] # "unset" THEN attr[cls] ELSE attr["BaseParser"]

\* whether the call goes into the initialisation (44)
Initialises(engine, failed, cls) ==
    ClassAttr(engine, cls) = "None" /\ ClassAttr(failed, cls) = "False"

\* one call cls.get_ocr_engine()
get_ocr_engine ==
    /\ pc = "call"
    /\ Len(ocr_calls) < MaxOcrCalls
    /\ \E cls \in OcrClasses, outcome \in GetInstanceOutcomes :
           LET attempt == Initialises(ocr_engine, ocr_engine_failed, cls)
               fails == attempt /\ outcome \in {"None", "raised"}
               engine_after == IF attempt /\ outcome # "raised"
                               THEN [ocr_engine EXCEPT ![cls] = outcome]
                               ELSE ocr_engine
               returned == IF fails THEN "None" ELSE ClassAttr(engine_after, cls)
           IN  /\ ocr_engine' = engine_after
               /\ ocr_engine_failed' = IF fails
                                       THEN [ocr_engine_failed EXCEPT ![cls] = "True"]
                                       ELSE ocr_engine_failed
               /\ ocr_calls' = Append(ocr_calls,
                                      [cls |-> cls,
                                       outcome |-> IF attempt THEN outcome ELSE "skipped",
                                       returned |-> returned])
               /\ ret' = returned
    /\ UNCHANGED <<splitter_vars, pc, max_concurrent_tasks, images_data, semaphore, tasks,
                   ocr_threads>>

NextOcrEngine == get_ocr_engine

SpecOcrEngine == InitOcrEngine /\ [][NextOcrEngine]_vars

\* the calls of the history are numbered i < j: once call i has failed to
\* initialise, call j returns None and does not initialise; once call i has
\* initialised an engine, call j returns that engine and does not initialise
CachedFrom(i, j) ==
    /\ ocr_calls[i].outcome \in {"None", "raised"} =>
           ocr_calls[j].outcome = "skipped" /\ ocr_calls[j].returned = "None"
    /\ ocr_calls[i].outcome \in Engines =>
           ocr_calls[j].outcome = "skipped" /\ ocr_calls[j].returned = ocr_calls[i].outcome

\* C30: for any sequence of calls of get_ocr_engine, once an initialisation
\* has failed every later call returns None without initialising again, once
\* one has succeeded every later call returns that engine without
\* initialising again, and every call returns.
C30_InitialisedOnce ==
    /\ \A i \in 1..Len(ocr_calls) : ocr_calls[i].returned \in Engines \cup {"None"}
    /\ \A i \in 1..Len(ocr_calls) : \A j \in (i + 1)..Len(ocr_calls) : CachedFrom(i, j)

\* the same statement for the sequences of calls that all go through
\* BaseParser, or all through the class derived from it
C30_ThroughOneClass ==
    (\A i \in 1..Len(ocr_calls) : ocr_calls[i].cls = ocr_calls[1].cls) =>
        \A i \in 1..Len(ocr_calls) : \A j \in (i + 1)..Len(ocr_calls) : CachedFrom(i, j)

(***************************************************************************)
(* BaseParser.process_multiple_images (base_parser.py 183-296).  Each      *)
(* image has a process_with_limit coroutine on the event loop and, once    *)
(* its OCR is started, a thread of the default executor that runs          *)
(* perform_ocr.  An image is named by its url, its 1-based index.  A task  *)
(* record holds pc, the coroutine's position; ocr_text; result, the value  *)
(* the coroutine returns; exception, whether it ends with an exception     *)
(* instead; and two history fields: produced, the tuple                    *)
(* process_image_async returned, and raised, whether the processing of the *)
(* image raised.                                                           *)
(***************************************************************************)
MaxImages == 2
MaxConcurrent == 2

InitImages ==
    /\ SplitterIdle
    /\ OcrIdle
    /\ max_concurrent_tasks \in 1..MaxConcurrent
    /\ images_data \in {[i \in 1..n |-> i] : n \in 0..MaxImages}
    /\ NoImageTasks
    /\ pc = "call"
    /\ ret = <<>>

\* the empty result put in for an image that failed (232, 281, 286)
EmptyResult(url) == <<"", "", url>>

\* process_multiple_images up to the gather (246-271): the semaphore and one
\* coroutine per image, or the empty list for no image
process_multiple_images ==
    /\ pc = "call"
    /\ IF images_data = <<>>
       THEN /\ ret' = <<>>
            /\ pc' = "returned"
            /\ UNCHANGED <<semaphore, tasks, ocr_threads>>
       ELSE /\ semaphore' = Min(max_concurrent_tasks, 1)
            /\ tasks' = [i \in 1..Len(images_data) |->
                            [url |-> images_data[i], pc |-> "waiting", ocr_text |-> "",
                             result |-> <<>>, exception |-> FALSE, produced |-> <<>>,
                             raised |-> FALSE]]
            /\ ocr_threads' = [i \in 1..Len(images_data) |-> "none"]
            /\ pc' = "gather"
            /\ UNCHANGED ret
    /\ UNCHANGED <<splitter_vars, ocr_engine, ocr_engine_failed, ocr_calls,
                   max_concurrent_tasks, images_data>>

\* what a step of one coroutine leaves alone
task_unchanged == <<splitter_vars, pc, ret, ocr_engine, ocr_engine_failed, ocr_calls,
                    max_concurrent_tasks, images_data>>

\* async with semaphore (225): the coroutine goes on once the semaphore is
\* free
acquire_semaphore ==
    /\ pc = "gather"
    /\ semaphore > 0
    /\ \E i \in 1..Len(tasks) :
           /\ tasks[i].pc = "waiting"
           /\ tasks' = [tasks EXCEPT ![i].pc = "acquired"]
    /\ semaphore' = semaphore - 1
    /\ UNCHANGED <<task_unchanged, ocr_threads>>

\* the exception leaves the async with block, which releases the semaphore,
\* and is caught (230-232)
Failed(task) == [task EXCEPT !.pc = "closing", !.raised = TRUE,
                             !.result = EmptyResult(task.url)]

\* process_image_async up to its await (195-206): the resize, which can
\* raise, and perform_ocr handed to the executor
start_ocr ==
    /\ pc = "gather"
    /\ \E i \in 1..Len(tasks), resize_raises \in BOOLEAN :
           /\ tasks[i].pc = "acquired"
           /\ IF resize_raises
              THEN /\ tasks' = [tasks EXCEPT ![i] = Failed(tasks[i])]
                   /\ semaphore' = semaphore + 1
                   /\ UNCHANGED ocr_threads
              ELSE /\ tasks' = [tasks EXCEPT ![i].pc = "ocr"]
                   /\ ocr_threads' = [ocr_threads EXCEPT ![i] = "running"]
                   /\ UNCHANGED semaphore
    /\ UNCHANGED task_unchanged

\* perform_ocr ends in its thread (134-158): it returns the text or raises
perform_ocr_ends ==
    /\ \E i \in 1..Len(ocr_threads), outcome \in {"returned", "raised"} :
           /\ ocr_threads[i] = "running"
           /\ ocr_threads' = [ocr_threads EXCEPT ![i] = outcome]
    /\ UNCHANGED <<task_unchanged, semaphore, tasks>>

\* the await of wait_for ends with the thread's outcome (206-209)
ocr_awaited ==
    /\ pc = "gather"
    /\ \E i \in 1..Len(tasks) :
           /\ tasks[i].pc = "ocr"
           /\ ocr_threads[i] \in {"returned", "raised"}
           /\ tasks' = [tasks EXCEPT ![i].pc = "caption",
                                     ![i].ocr_text = IF ocr_threads[i] = "returned"
                                                     THEN "text" ELSE ""]
    /\ UNCHANGED <<task_unchanged, semaphore, ocr_threads>>

\* the await of wait_for ends with the timeout (206-209): the future is
\* cancelled, the thread of the executor goes on running perform_ocr
ocr_timeout ==
    /\ pc = "gather"
    /\ \E i \in 1..Len(tasks) :
           /\ tasks[i].pc = "ocr"
           /\ ocr_threads[i] = "running"
           /\ tasks' = [tasks EXCEPT ![i].pc = "caption", ![i].ocr_text = ""]
    /\ UNCHANGED <<task_unchanged, semaphore, ocr_threads>>

\* the rest of process_image_async (211-217) and the return through the
\* async with block (227-229): the caption, which can raise, and the release
\* of the semaphore
get_image_caption ==
    /\ pc = "gather"
    /\ \E i \in 1..Len(tasks), caption \in {"caption", "", "raised"} :
           /\ tasks[i].pc = "caption"
           /\ tasks' = [tasks EXCEPT ![i] =
                  IF caption = "raised" THEN Failed(tasks[i])
                  ELSE [tasks[i] EXCEPT
                           !.pc = "closing",
                           !.produced = <<tasks[i].ocr_text, caption, tasks[i].url>>,
                           !.result = <<tasks[i].ocr_text, caption, tasks[i].url>>]]
    /\ semaphore' = semaphore + 1
    /\ UNCHANGED <<task_unchanged, ocr_threads>>

\* finally: image.close() (233-235); if it raises, the coroutine ends with
\* the exception
close_image ==
    /\ pc = "gather"
    /\ \E i \in 1..Len(tasks), close_raises \in BOOLEAN :
           /\ tasks[i].pc = "closing"
           /\ tasks' = [tasks EXCEPT ![i] =
                  IF close_raises
                  THEN [tasks[i] EXCEPT !.pc = "done", !.raised = TRUE,
                                        !.result = <<>>, !.exception = TRUE]
                  ELSE [tasks[i] EXCEPT !.pc = "done"]]
    /\ UNCHANGED <<task_unchanged, semaphore, ocr_threads>>

\* the results, were the images that ended with an exception left out
RECURSIVE GatherResults_skip_exceptions(_)
GatherResults_skip_exceptions(done) ==
    IF done = <<>> THEN <<>>
    ELSE (IF Head(done).exception THEN <<>> ELSE <<Head(done).result>>)
             \o GatherResults_skip_exceptions(Tail(done))

\* the results list built from what gather returns (274-284)
RECURSIVE GatherResults(_)
GatherResults(done) ==
    IF done = <<>> THEN <<>>
    ELSE <<IF Head(done).exception
           THEN EmptyResult(Head(done).url) ELSE Head(done).result>>
             \o GatherResults(Tail(done))

\* gather returns once every coroutine has ended (271-296)
gather_returns ==
    /\ pc = "gather"
    /\ \A i \in 1..Len(tasks) : tasks[i].pc = "done"
    /\ ret' = GatherResults(tasks)
    /\ images_data' = <<>>
    /\ pc' = "returned"
    /\ UNCHANGED <<splitter_vars, ocr_engine, ocr_engine_failed, ocr_calls,
                   max_concurrent_tasks, semaphore, tasks, ocr_threads>>

NextImages ==
    \/ process_multiple_images
    \/ acquire_semaphore
    \/ start_ocr
    \/ perform_ocr_ends
    \/ ocr_awaited
    \/ ocr_timeout
    \/ get_image_caption
    \/ close_image
    \/ gather_returns

SpecImages == InitImages /\ [][NextImages]_vars

\* C28: process_multiple_images returns exactly one result per input image,
\* in input order, whatever the interleaving of the image tasks and whichever
\* images fail: an image whose processing raised has the result
\* ('', '', its url), and every other image has the result its own
\* processing produced.
C28_OneResultPerImage ==
    pc = "returned" =>
        /\ Len(ret) = Len(tasks)
        /\ \A i \in 1..Len(ret) :
               /\ ret[i][3] = tasks[i].url
               /\ tasks[i].url = i
               /\ tasks[i].raised => ret[i] = EmptyResult(i)
               /\ ~tasks[i].raised => ret[i] = tasks[i].produced /\ ret[i][3] = i

\* C28 witness: two images were processed; the coroutine of the first ended
\* with an exception, the second returned its OCR text and caption
C28_Witness ==
    /\ pc = "returned"
    /\ Len(ret) = 2
    /\ tasks[1].exception
    /\ ~tasks[2].raised
    /\ ret[2] = <<"text", "caption", 2>>

\* C29: while process_multiple_images runs, at most one perform_ocr call is
\* executing at any moment, whatever max_concurrent_tasks >= 1 is set, also
\* after an earlier image's OCR call ran into its timeout.
C29_OneOcrAtATime ==
    Cardinality({i \in 1..Len(ocr_threads) : ocr_threads[i] = "running"}) <= 1

\* at most one coroutine holds the semaphore, and at most one awaits its OCR
C29_OneHolder ==
    /\ Cardinality({i \in 1..Len(tasks) : tasks[i].pc \in {"acquired", "ocr", "caption"}})
           + semaphore = IF tasks = <<>> THEN 0 ELSE 1
    /\ Cardinality({i \in 1..Len(tasks) : tasks[i].pc = "ocr"}) <= 1

\* the event loop runs a coroutine that can go on, and wait_for ends every
\* await of an OCR, with the thread's outcome or with the timeout
SpecImagesFair ==
    /\ SpecImages
    /\ WF_vars(process_multiple_images \/ acquire_semaphore \/ start_ocr \/ ocr_awaited
                   \/ ocr_timeout \/ get_image_caption \/ close_image \/ gather_returns)

\* every coroutine that waits for the semaphore acquires it and releases it
\* again, and process_multiple_images returns
C29_EveryTaskReleases ==
    /\ \A i \in 1..MaxImages :
           (i <= Len(tasks) /\ tasks[i].pc = "waiting")
               ~> (i <= Len(tasks) /\ tasks[i].pc \in {"closing", "done"})
    /\ (pc = "call") ~> (pc = "returned")

====
